---------------------------- MODULE Spec2Model ----------------------------
(***************************************************************************)
(* A model of the agentic chat orchestrator of taal:                       *)
(*   backend/app/agents/langgraph_router.py  (tool surface, record access  *)
(*   layer, table registry, conversation loop, context carrier)            *)
(*   backend/app/models/db_models.py         (the record schema)           *)
(***************************************************************************)
EXTENDS Integers, Sequences, FiniteSets, TLC

(***************************************************************************)
(* Bounds of the model.                                                    *)
(***************************************************************************)
\* Tool calls the chat model may issue in one turn before it answers.
MaxToolCalls == 3

(***************************************************************************)
(* Values.  Every value (a JSON value supplied by the chat model, a Python *)
(* value held by the ORM, a serialized value) is a record [t, v, n]:       *)
(* t the type, v its text, n its number.                                   *)
(***************************************************************************)
Null == [t |-> "null", v |-> "", n |-> 0]
Str(s) == [t |-> "str", v |-> s, n |-> 0]
Num(k) == [t |-> "num", v |-> "", n |-> k]
Dec(k) == [t |-> "decimal", v |-> "", n |-> k]
Flt(k) == [t |-> "float", v |-> "", n |-> k]
BoolV(b) == [t |-> "bool", v |-> "", n |-> IF b THEN 1 ELSE 0]
DateV(s) == [t |-> "date", v |-> s, n |-> 0]
\* A timestamp read from the database clock (NOW()), or parsed from text.
DateTimeV(k) == [t |-> "datetime", v |-> "", n |-> k]
DateTimeOf(s) == [t |-> "datetime", v |-> s, n |-> 0]
Uuid(k) == [t |-> "uuid", v |-> "", n |-> k]
\* str(UUID): the canonical text of uuid k.
UuidStr(k) == [t |-> "str", v |-> "uuid", n |-> k]

\* Texts that Decimal() accepts, with the number each denotes.
NumericTexts == {"0", "500", "80000"}
NumParse(s) == CASE s = "0" -> 0 [] s = "500" -> 500 [] s = "80000" -> 80000 [] OTHER -> 0
NumText(k) == CASE k = 0 -> "0" [] k = 500 -> "500" [] k = 80000 -> "80000" [] OTHER -> "n"
\* Texts that date.fromisoformat / datetime.fromisoformat accept.
IsoDates == {"2024-01-05", "2024-01-07", "2024-03-01"}
IsoDateTimes == {"2020-01-01T00:00:00"}

\* Python truthiness of a value (bool(x)).
Truthy(x) ==
    CASE x.t = "null" -> FALSE
      [] x.t = "str" -> ~(x.v = "" /\ x.n = 0)
      [] x.t \in {"num", "decimal", "float", "bool"} -> x.n # 0
      [] OTHER -> TRUE

\* str(x) of a value.
PyStr(x) ==
    CASE x.t = "str" -> x
      [] x.t \in {"num", "decimal"} -> Str(NumText(x.n))
      [] x.t = "uuid" -> UuidStr(x.n)
      [] x.t = "bool" -> Str(IF x.n = 1 THEN "True" ELSE "False")
      [] x.t = "null" -> Str("None")
      [] OTHER -> Str(x.v)

(***************************************************************************)
(* The record schema (db_models.py).  A column is                          *)
(*   [name, type, nullable, dflt, pk, fk]                                  *)
(* dflt is the server default: "none", "now", "genuuid" or "const" (dv).   *)
(***************************************************************************)
Col(name, type, nullable, dflt, dv) ==
    [name |-> name, type |-> type, nullable |-> nullable, dflt |-> dflt, dv |-> dv,
     pk |-> FALSE, fk |-> ""]
Fk(name, nullable, target) ==
    [name |-> name, type |-> "uuid", nullable |-> nullable, dflt |-> "none", dv |-> Null,
     pk |-> FALSE, fk |-> target]
PkGen == [name |-> "id", type |-> "uuid", nullable |-> FALSE, dflt |-> "genuuid", dv |-> Null,
          pk |-> TRUE, fk |-> ""]
OwnerCol == Fk("user_id", FALSE, "users")
Plain(name, type) == Col(name, type, TRUE, "none", Null)
Req(name, type) == Col(name, type, FALSE, "none", Null)
Stamp(name) == Col(name, "datetime", TRUE, "now", Null)
FlagCol(name) == Col(name, "boolean", TRUE, "const", BoolV(FALSE))

User ==
    << [name |-> "id", type |-> "uuid", nullable |-> FALSE, dflt |-> "none", dv |-> Null,
        pk |-> TRUE, fk |-> ""],
       Req("email", "text"), Plain("full_name", "text"), Plain("phone", "text"),
       Stamp("created_at"), Stamp("updated_at") >>

IncomeSource ==
    << PkGen, OwnerCol, Req("source_name", "text"), Req("source_type", "string"),
       Req("amount", "numeric"), Req("frequency", "string"), Stamp("created_at") >>

Client ==
    << PkGen, OwnerCol, Req("name", "text"), Plain("email", "text"), Plain("phone", "text"),
       Plain("gst_number", "text"), Plain("notes", "text"),
       Stamp("created_at"), Stamp("updated_at") >>

Transaction ==
    << PkGen, OwnerCol, Fk("client_id", TRUE, "clients"),
       Req("type", "string"), Req("amount", "numeric"),
       Col("currency", "string", FALSE, "const", Str("INR")),
       Plain("category", "text"), Plain("subcategory", "text"), Plain("description", "text"),
       Req("date", "date"), Plain("scheduled_for", "date"),
       FlagCol("is_recurring"), Plain("recurrence_rule", "text"),
       FlagCol("gst_eligible"), Plain("gst_rate", "numeric"),
       Col("ledger_status", "string", TRUE, "const", Str("unreconciled")),
       FlagCol("requires_follow_up"), Plain("follow_up_reason", "text"),
       FlagCol("has_receipt"), Plain("tags", "array"), Plain("notes", "text"),
       Plain("source", "text"), Stamp("created_at"), Stamp("updated_at") >>

Invoice ==
    << PkGen, OwnerCol, Fk("client_id", TRUE, "clients"),
       Plain("number", "text"), Plain("description", "text"),
       Plain("issue_date", "date"), Plain("due_date", "date"),
       Req("amount", "numeric"),
       Col("currency", "string", FALSE, "const", Str("INR")),
       Col("status", "string", FALSE, "const", Str("draft")),
       Plain("expected_payment_date", "date"), Plain("actual_payment_date", "date"),
       Col("reminder_count", "integer", FALSE, "const", Num(0)),
       Fk("income_transaction_id", TRUE, "transactions"),
       Stamp("created_at"), Stamp("updated_at") >>

ComplianceTask ==
    << PkGen, OwnerCol, Fk("transaction_id", TRUE, "transactions"),
       Plain("task_type", "string"), Plain("title", "text"), Plain("due_date", "date"),
       Col("status", "string", FALSE, "const", Str("pending")),
       Plain("notes", "text"), Stamp("created_at"), Stamp("updated_at") >>

Goal ==
    << PkGen, OwnerCol, Req("title", "text"), Plain("description", "text"),
       Plain("category", "text"),
       Col("status", "string", FALSE, "const", Str("active")),
       Col("priority", "string", FALSE, "const", Str("medium")),
       Req("target_amount", "numeric"),
       Col("current_amount", "numeric", FALSE, "const", Dec(0)),
       Plain("deadline", "date"),
       Col("monthly_contribution", "numeric", FALSE, "const", Dec(0)),
       Col("required_monthly", "numeric", FALSE, "const", Dec(0)),
       Plain("icon_key", "text"), Plain("tags", "array"), Plain("notes", "text"),
       Stamp("created_at"), Stamp("updated_at") >>

PulseHistory ==
    << PkGen, OwnerCol, Req("score", "integer"), Req("trend", "string"),
       Req("volatility", "numeric"), Req("savings_rate", "numeric"),
       Stamp("calculated_at") >>

ChatMessage ==
    << PkGen, OwnerCol, Req("role", "string"), Req("content", "text"),
       Plain("audio_url", "text"), Stamp("created_at") >>

TaxRecord ==
    << PkGen, OwnerCol, Req("financial_year", "text"), Req("quarter", "string"),
       Req("estimated_tax", "numeric"),
       Col("paid_tax", "numeric", FALSE, "const", Dec(0)),
       Stamp("created_at"), Stamp("updated_at") >>

WhatsAppNudge ==
    << PkGen, OwnerCol, Req("message", "text"), Stamp("sent_at"),
       Col("status", "string", FALSE, "const", Str("sent")) >>

\* The CHECK constraints of a table: column -> the texts it admits.
CheckConstraints(tbl) ==
    CASE tbl = "income_sources" ->
           {<<"source_type", {"monthly", "freelance", "gig", "other"}>>,
            <<"frequency", {"one-time", "weekly", "monthly", "quarterly"}>>}
      [] tbl = "transactions" ->
           {<<"type", {"income", "expense", "transfer"}>>,
            <<"ledger_status", {"unreconciled", "pending", "cleared"}>>}
      [] tbl = "invoices" ->
           {<<"status", {"draft", "sent", "paid", "overdue", "cancelled"}>>}
      [] tbl = "compliance_tasks" ->
           {<<"task_type", {"gst", "tax", "bookkeeping"}>>,
            <<"status", {"pending", "in_progress", "completed"}>>}
      [] tbl = "goals" ->
           {<<"status", {"active", "paused", "achieved"}>>,
            <<"priority", {"high", "medium", "low"}>>}
      [] tbl = "pulse_history" -> {<<"trend", {"up", "down", "stable"}>>}
      [] tbl = "chat_messages" -> {<<"role", {"user", "assistant"}>>}
      [] tbl = "tax_records" -> {<<"quarter", {"Q1", "Q2", "Q3", "Q4"}>>}
      [] tbl = "whatsapp_nudges" -> {<<"status", {"sent", "delivered", "read", "failed"}>>}
      [] OTHER -> {}


(***************************************************************************)
(* Python dictionaries are functions from keys to values.                  *)
(***************************************************************************)
EmptyDict == [k \in {} |-> Null]
\* d.get(k)
Get(d, k) == IF k \in DOMAIN d THEN d[k] ELSE Null
\* d[k] = x
Put(d, k, x) == [j \in DOMAIN d \cup {k} |-> IF j = k THEN x ELSE d[j]]
\* a or b
PyOr(a, b) == IF Truthy(a) THEN a ELSE b
\* The names of a column sequence, as a set, and the column of a name.
ColNames(cols) == {cols[i].name : i \in 1..Len(cols)}
ColOf(cols, name) == CHOOSE c \in {cols[i] : i \in 1..Len(cols)} : c.name = name

(***************************************************************************)
(* Table Registry.                                                         *)
(***************************************************************************)
\* The keys of _MODEL_TABLES, in the order of the dictionary.
ModelTableKeys ==
    << "users", "transactions", "goals", "income_sources", "clients", "invoices",
       "compliance_tasks", "pulse_history", "chat_messages", "tax_records",
       "whatsapp_nudges" >>

\* _MODEL_TABLES[key]: the model (its columns) registered under a key.
ModelTables(key) ==
    CASE key = "users" -> User
      [] key = "transactions" -> Transaction
      [] key = "goals" -> Goal
      [] key = "income_sources" -> IncomeSource
      [] key = "clients" -> Client
      [] key = "invoices" -> Invoice
      [] key = "compliance_tasks" -> ComplianceTask
      [] key = "pulse_history" -> PulseHistory
      [] key = "chat_messages" -> ChatMessage
      [] key = "tax_records" -> TaxRecord
      [] key = "whatsapp_nudges" -> WhatsAppNudge
      [] OTHER -> << >>

IsModelTable(key) == \E i \in 1..Len(ModelTableKeys) : ModelTableKeys[i] = key

\* The column names _build_allowed_fields and _infer_required_fields skip.
SkipFields == {"id", "user_id", "created_at", "updated_at", "created_on", "updated_on"}

\* A variant that forgets the ownership column.
BuildAllowedFieldsKeepsOwner(model) ==
    SelectSeq([i \in 1..Len(model) |-> model[i].name],
              LAMBDA n : n \notin (SkipFields \ {"user_id"}))

BuildAllowedFields(model) ==
    SelectSeq([i \in 1..Len(model) |-> model[i].name], LAMBDA n : n \notin SkipFields)

InferRequiredFields(model) ==
    LET req(c) == /\ c.name \notin SkipFields
                  /\ ~c.nullable
                  /\ c.dflt = "none"
                  /\ c.type # "boolean"
    IN  [i \in 1..Len(SelectSeq(model, req)) |-> SelectSeq(model, req)[i].name]

PrimaryKeyColumn(model) ==
    LET pks == SelectSeq(model, LAMBDA c : c.pk) IN pks[1]

\* A variant that registers every table as writable.
WritableTableKeysAll == ModelTableKeys

\* The keys of _WRITABLE_TABLES: every registered table but the users table.
WritableTableKeys == SelectSeq(ModelTableKeys, LAMBDA k : ModelTables(k) # User)

IsWritableTable(key) == \E i \in 1..Len(WritableTableKeys) : WritableTableKeys[i] = key

\* _WRITABLE_TABLES[key]
WritableMeta(key) ==
    [model |-> ModelTables(key),
     columns |-> ColNames(ModelTables(key)),
     allowed_fields |-> BuildAllowedFields(ModelTables(key)),
     required_fields |-> InferRequiredFields(ModelTables(key)),
     primary_key |-> PrimaryKeyColumn(ModelTables(key))]

SeqToSet(s) == {s[i] : i \in 1..Len(s)}

\* (table or "").strip().lower() on the table arguments the chat model supplies.
TableKey(table) ==
    CASE table = " Goals " -> "goals"
      [] table = "Transactions" -> "transactions"
      [] OTHER -> table

(***************************************************************************)
(* Coercion and serialization.                                             *)
(***************************************************************************)
IsNumericText(s) == s.t = "str" /\ s.n = 0 /\ s.v \in NumericTexts
IsDateText(s) == s.t = "str" /\ s.n = 0 /\ s.v \in IsoDates
IsDateTimeText(s) == s.t = "str" /\ s.n = 0 /\ s.v \in (IsoDateTimes \cup IsoDates)
IsUuidText(s) == s.t = "str" /\ s.v = "uuid"
TrueTexts == {"true", "1", "yes", "y", "True", "YES", " true "}

\* _coerce_column_value: [ok, val]; ok = FALSE when it raises ValueError.
CoerceColumnValue(column, value) ==
    IF value = Null THEN [ok |-> TRUE, val |-> Null]
    ELSE CASE column.type = "numeric" ->
                IF IsNumericText(PyStr(value))
                THEN [ok |-> TRUE, val |-> Dec(NumParse(PyStr(value).v))]
                ELSE [ok |-> FALSE, val |-> value]
           [] column.type = "datetime" ->
                IF value.t = "datetime" THEN [ok |-> TRUE, val |-> value]
                ELSE IF IsDateTimeText(PyStr(value))
                THEN [ok |-> TRUE, val |-> DateTimeOf(PyStr(value).v)]
                ELSE [ok |-> FALSE, val |-> value]
           [] column.type = "date" ->
                IF value.t = "date" THEN [ok |-> TRUE, val |-> value]
                ELSE IF IsDateText(PyStr(value))
                THEN [ok |-> TRUE, val |-> DateV(PyStr(value).v)]
                ELSE [ok |-> FALSE, val |-> value]
           [] column.type = "boolean" ->
                IF value.t = "bool" THEN [ok |-> TRUE, val |-> value]
                ELSE IF value.t = "str"
                THEN [ok |-> TRUE, val |-> BoolV(value.n = 0 /\ value.v \in TrueTexts)]
                ELSE [ok |-> TRUE, val |-> BoolV(Truthy(value))]
           [] column.type = "uuid" ->
                IF value.t = "uuid" THEN [ok |-> TRUE, val |-> value]
                ELSE IF IsUuidText(PyStr(value))
                THEN [ok |-> TRUE, val |-> Uuid(PyStr(value).n)]
                ELSE [ok |-> FALSE, val |-> value]
           [] OTHER -> [ok |-> TRUE, val |-> value]

\* _to_iso
ToIso(dt) ==
    CASE dt = Null -> Null
      [] dt.t = "datetime" -> [t |-> "str", v |-> "iso:" \o dt.v, n |-> dt.n]
      [] OTHER -> Str(dt.v \o "T00:00:00")

\* _to_float
ToFloat(value) ==
    CASE value = Null -> Null
      [] value.t \in {"decimal", "num", "float"} -> Flt(value.n)
      [] IsNumericText(value) -> Flt(NumParse(value.v))
      [] OTHER -> Null

\* _serialize_value
SerializeValue(value) ==
    CASE value.t \in {"datetime", "date"} -> ToIso(value)
      [] value.t = "decimal" -> ToFloat(value)
      [] value.t = "uuid" -> UuidStr(value.n)
      [] OTHER -> value

\* _serialize_instance: every column of the row, serialized.
SerializeInstance(row) == [k \in DOMAIN row.c |-> SerializeValue(row.c[k])]

\* _serialize_transaction
SerializeTransaction(tx) ==
    [id |-> PyStr(tx.c.id), type |-> tx.c.type, amount |-> ToFloat(tx.c.amount),
     currency |-> tx.c.currency, category |-> tx.c.category,
     description |-> tx.c.description, date |-> ToIso(tx.c.date),
     status |-> tx.c.ledger_status]

\* _serialize_goal
SerializeGoal(goal) ==
    [id |-> PyStr(goal.c.id), title |-> goal.c.title, status |-> goal.c.status,
     priority |-> goal.c.priority, target_amount |-> ToFloat(goal.c.target_amount),
     current_amount |-> ToFloat(goal.c.current_amount), deadline |-> ToIso(goal.c.deadline)]


(***************************************************************************)
(* The database: rows [tbl, c] (c maps each column of the table to its     *)
(* value), and a counter that serves gen_random_uuid() and NOW().          *)
(* A store is [rows, clock, broken]: broken holds the sessions whose       *)
(* transaction failed in a flush and has not been rolled back.             *)
(***************************************************************************)
NoSession == "none"
Min(a, b) == IF a < b THEN a ELSE b
Max(a, b) == IF a > b THEN a ELSE b
Take(s, n) == SubSeq(s, 1, Min(n, Len(s)))

\* The value the server gives a column that the INSERT leaves out.
DefaultValue(col, clock) ==
    CASE col.dflt = "genuuid" -> Uuid(clock)
      [] col.dflt = "now" -> DateTimeV(clock)
      [] col.dflt = "const" -> col.dv
      [] OTHER -> Null

\* The value a column holds after a write of x: text columns hold text.
DbStore(col, x) == IF col.type \in {"text", "string"} /\ x # Null THEN PyStr(x) ELSE x

\* model(**prepared); db.add(record): the row the INSERT writes.  The ORM
\* leaves a None attribute out of the INSERT, so the server default applies.
NewRow(tbl, prepared, clock) ==
    [tbl |-> tbl,
     c |-> [name \in ColNames(ModelTables(tbl)) |->
              IF Get(prepared, name) # Null
              THEN DbStore(ColOf(ModelTables(tbl), name), prepared[name])
              ELSE DefaultValue(ColOf(ModelTables(tbl), name), clock)]]

\* NOT NULL, CHECK and FOREIGN KEY constraints of the row's table.
RowAccepted(row, rows) ==
    LET cols == ModelTables(row.tbl) IN
    /\ \A i \in 1..Len(cols) : cols[i].nullable \/ row.c[cols[i].name] # Null
    /\ \A ck \in CheckConstraints(row.tbl) :
          \/ row.c[ck[1]] = Null
          \/ row.c[ck[1]].t = "str" /\ row.c[ck[1]].n = 0 /\ row.c[ck[1]].v \in ck[2]
    /\ \A i \in 1..Len(cols) :
          \/ cols[i].fk = ""
          \/ row.c[cols[i].name] = Null
          \/ \E r \in rows : r.tbl = cols[i].fk /\ r.c.id = row.c[cols[i].name]

\* A variant whose UPDATE stamps updated_at even when no attribute changed.
UpdatedRowTouched(row, prepared, clock) ==
    LET cols == ModelTables(row.tbl)
        set(name) == IF name \in DOMAIN prepared
                     THEN DbStore(ColOf(cols, name), prepared[name]) ELSE row.c[name]
    IN  [tbl |-> row.tbl,
         c |-> [name \in DOMAIN row.c |->
                  IF name = "updated_at" THEN DateTimeV(clock) ELSE set(name)]]

\* setattr(record, key, value) for each prepared key; the UPDATE also sets
\* updated_at (onupdate) when the table has it and some attribute changed.
UpdatedRow(row, prepared, clock) ==
    LET cols == ModelTables(row.tbl)
        set(name) == IF name \in DOMAIN prepared
                     THEN DbStore(ColOf(cols, name), prepared[name]) ELSE row.c[name]
        changed == \E name \in DOMAIN prepared : set(name) # row.c[name]
    IN  [tbl |-> row.tbl,
         c |-> [name \in DOMAIN row.c |->
                  IF name = "updated_at" /\ changed THEN DateTimeV(clock) ELSE set(name)]]

\* The orders in which a query may return the rows of S: descending in rank,
\* rows of equal rank in any order (a query without ORDER BY ranks all rows alike).
RECURSIVE OrderedSeqs(_, _)
OrderedSeqs(S, rank) ==
    IF S = {} THEN {<< >>}
    ELSE UNION { {<<m>> \o rest : rest \in OrderedSeqs(S \ {m}, rank)} :
                 m \in {x \in S : \A y \in S : rank[x] >= rank[y]} }

DateRank(d) ==
    CASE d.v = "2024-01-05" -> 1 [] d.v = "2024-01-07" -> 2 [] d.v = "2024-03-01" -> 3
      [] OTHER -> 0

RECURSIVE SumAmounts(_)
SumAmounts(S) ==
    IF S = {} THEN 0
    ELSE LET r == CHOOSE x \in S : TRUE IN r.c.amount.n + SumAmounts(S \ {r})

(***************************************************************************)
(* Tool results.  error = "" is a success; raised = TRUE is an exception   *)
(* that leaves the tool.                                                   *)
(***************************************************************************)
BaseResult ==
    [raised |-> FALSE, error |-> "", invalid |-> {}, missing |-> << >>,
     allowed |-> << >>, table |-> "", records |-> << >>, goals |-> << >>,
     user |-> EmptyDict, totals |-> EmptyDict, warnings |-> {}]
ErrorResult(msg) == [BaseResult EXCEPT !.error = msg]
Raise(msg) == [BaseResult EXCEPT !.error = msg, !.raised = TRUE]
Outcome(res, st) == [res |-> res, st |-> st]

\* _normalize_user_id
NormalizeUserId(user_id) == IF IsUuidText(user_id) THEN Uuid(user_id.n) ELSE user_id

\* _require_context: the context is a [db, user] pair; ok = FALSE when it raises.
RequireContext(ctx) ==
    [ok |-> ctx.db # NoSession /\ Truthy(ctx.user), db |-> ctx.db,
     user_id |-> NormalizeUserId(ctx.user)]

ContextError == Raise("Database context is unavailable for tool execution.")
PendingRollback == Raise("PendingRollbackError")


(***************************************************************************)
(* Record Access Layer.                                                    *)
(***************************************************************************)
\* _prepare_record_kwargs: [prepared, errors]; errors holds one entry per
\* supplied writable field that fails coercion.
PrepareRecordKwargs(meta, data, include_user_id, user_id) ==
    LET allowed == {k \in DOMAIN data : k \in SeqToSet(meta.allowed_fields)}
        co(k) == CoerceColumnValue(ColOf(meta.model, k), data[k])
        good == {k \in allowed : co(k).ok}
        coerced == [k \in good |-> co(k).val]
    IN  [prepared |-> IF include_user_id /\ "user_id" \in meta.columns
                      THEN Put(coerced, "user_id", user_id) ELSE coerced,
         errors |-> {[column |-> k, value |-> data[k]] : k \in allowed \ good}]

\* A variant that checks nothing.
EnsureRequiredFieldsNone(meta, prepared) == << >>

\* _ensure_required_fields
EnsureRequiredFields(meta, prepared) ==
    SelectSeq(meta.required_fields, LAMBDA f : Get(prepared, f) \in {Null, Str("")})

\* A variant that leaves the amount out of the synthesized title.
GoalTitleNoAmount(prepared, incoming) ==
    LET given == PyOr(Get(incoming, "title"), Get(incoming, "description"))
    IN  IF Truthy(given) THEN PyStr(given) ELSE Str("Savings goal")

\* The title _apply_table_defaults gives a goal that has none.
GoalTitle(prepared, incoming) ==
    LET given == PyOr(Get(incoming, "title"), Get(incoming, "description"))
        raw == PyOr(Get(incoming, "target_amount"), Get(prepared, "target_amount"))
        \* a Decimal is rendered normalized
        target == IF raw.t = "decimal" THEN PyStr(raw) ELSE raw
    IN  IF Truthy(given) THEN PyStr(given)
        ELSE IF Truthy(target) THEN Str("Savings goal " \o PyStr(target).v)
        ELSE Str("Savings goal")

\* A variant of the defaults that always writes the default.
DefaultToAlways(prepared, k, x) == Put(prepared, k, x)

\* prepared with key k set to x when prepared.get(k) is None.
DefaultTo(prepared, k, x) == IF Get(prepared, k) = Null THEN Put(prepared, k, x) ELSE prepared

\* _apply_table_defaults
ApplyTableDefaults(table_key, prepared, incoming) ==
    CASE table_key = "goals" ->
           LET p1 == IF ~Truthy(Get(prepared, "title"))
                     THEN Put(prepared, "title", GoalTitle(prepared, incoming))
                     ELSE prepared
               p2 == DefaultTo(p1, "status", Str("active"))
               p3 == DefaultTo(p2, "priority", Str("medium"))
               p4 == DefaultTo(p3, "current_amount", Dec(0))
               p5 == DefaultTo(p4, "monthly_contribution", Dec(0))
           IN  DefaultTo(p5, "required_monthly", Dec(0))
      [] table_key = "transactions" ->
           DefaultTo(DefaultTo(prepared, "currency", Str("INR")),
                     "ledger_status", Str("unreconciled"))
      [] table_key = "invoices" ->
           DefaultTo(DefaultTo(prepared, "currency", Str("INR")), "status", Str("draft"))
      [] table_key = "compliance_tasks" -> DefaultTo(prepared, "status", Str("pending"))
      [] OTHER -> prepared

\* A variant without the ownership filter.
OwnedRowsUnfiltered(rows, key, user_id) == {r \in rows : r.tbl = key}

\* The rows of a model that a query filtered by ownership sees.
OwnedRows(rows, key, user_id) ==
    IF "user_id" \in ColNames(ModelTables(key))
    THEN {r \in rows : r.tbl = key /\ r.c.user_id = user_id}
    ELSE IF ModelTables(key) = User
    THEN {r \in rows : r.tbl = key /\ r.c.id = user_id}
    ELSE {r \in rows : r.tbl = key}

\* _query_model_records: the row sequences the query may return.
QueryModelRecords(rows, user_id, key, limit) ==
    LET S == OwnedRows(rows, key, user_id)
        rank == [r \in S |-> IF "created_at" \in ColNames(ModelTables(key))
                             THEN r.c.created_at.n ELSE 0]
    IN  {Take(s, limit) : s \in OrderedSeqs(S, rank)}

\* A variant of the lookup without the ownership filter.
FetchUserRecordAnyOwner(rows, meta, key, user_id, record_id) ==
    LET pk == CoerceColumnValue(meta.primary_key, record_id) IN
    [ok |-> pk.ok, found |-> {r \in rows : r.tbl = key /\ r.c.id = pk.val}]

\* _fetch_user_record: ok = FALSE when it raises ValueError; found holds
\* the record, or nothing.
FetchUserRecord(rows, meta, key, user_id, record_id) ==
    LET pk == CoerceColumnValue(meta.primary_key, record_id) IN
    [ok |-> pk.ok,
     found |-> {r \in rows : /\ r.tbl = key
                             /\ r.c.id = pk.val
                             /\ ("user_id" \in meta.columns => r.c.user_id = user_id)}]

(***************************************************************************)
(* Tool Surface.  Each tool maps a context, a call and a store to the set  *)
(* of its possible outcomes [res, st].                                     *)
(***************************************************************************)
SerializeAll(rowseq) == [i \in 1..Len(rowseq) |-> SerializeInstance(rowseq[i])]

\* get_user_snapshot
GetUserSnapshot(ctx, call, st) ==
    LET rc == RequireContext(ctx)
        users == {r \in st.rows : r.tbl = "users" /\ r.c.id = rc.user_id}
        tx_limit == Max(1, Min(call.limit, 20))
        goal_limit == Max(1, Min(call.limit2, 20))
        txs == {r \in st.rows : r.tbl = "transactions" /\ r.c.user_id = rc.user_id}
        gls == {r \in st.rows : r.tbl = "goals" /\ r.c.user_id = rc.user_id}
        sum(type) == SumAmounts({r \in txs : r.c.type = Str(type)})
        result(user, txseq, goalseq) ==
            [BaseResult EXCEPT
               !.user = [id |-> PyStr(user.c.id), name |-> user.c.full_name,
                         email |-> user.c.email, created_at |-> ToIso(user.c.created_at)],
               !.totals = [total_income |-> Flt(sum("income")),
                           total_expense |-> Flt(sum("expense"))],
               !.records = [i \in 1..Len(txseq) |-> SerializeTransaction(txseq[i])],
               !.goals = [i \in 1..Len(goalseq) |-> SerializeGoal(goalseq[i])]]
    IN  IF ~rc.ok THEN {Outcome(ContextError, st)}
        ELSE IF rc.db \in st.broken THEN {Outcome(PendingRollback, st)}
        ELSE IF users = {} THEN {Outcome(ErrorResult("User not found"), st)}
        ELSE {Outcome(result(u, Take(ts, tx_limit), Take(gs, goal_limit)), st) :
                u \in users,
                ts \in OrderedSeqs(txs, [r \in txs |-> DateRank(r.c.date)]),
                gs \in OrderedSeqs(gls, [r \in gls |-> r.c.created_at.n])}

\* get_recent_transactions
GetRecentTransactions(ctx, call, st) ==
    LET rc == RequireContext(ctx)
        tx_limit == Max(1, Min(call.limit, 20))
        txs == {r \in st.rows : r.tbl = "transactions" /\ r.c.user_id = rc.user_id}
    IN  IF ~rc.ok THEN {Outcome(ContextError, st)}
        ELSE IF rc.db \in st.broken THEN {Outcome(PendingRollback, st)}
        ELSE {Outcome([BaseResult EXCEPT !.records =
                         [i \in 1..Len(Take(ts, tx_limit)) |->
                            SerializeTransaction(Take(ts, tx_limit)[i])]], st) :
                ts \in OrderedSeqs(txs, [r \in txs |-> r.c.created_at.n])}

\* get_active_goals
GetActiveGoals(ctx, call, st) ==
    LET rc == RequireContext(ctx)
        goal_limit == Max(1, Min(call.limit, 20))
        gls == {r \in st.rows : r.tbl = "goals" /\ r.c.user_id = rc.user_id}
    IN  IF ~rc.ok THEN {Outcome(ContextError, st)}
        ELSE IF rc.db \in st.broken THEN {Outcome(PendingRollback, st)}
        ELSE {Outcome([BaseResult EXCEPT !.goals =
                         [i \in 1..Len(Take(gs, goal_limit)) |->
                            SerializeGoal(Take(gs, goal_limit)[i])]], st) :
                gs \in OrderedSeqs(gls, [r \in gls |-> r.c.created_at.n])}

\* get_table_records
GetTableRecords(ctx, call, st) ==
    LET rc == RequireContext(ctx)
        table_key == TableKey(call.table)
        record_limit == Max(1, Min(call.limit, 50))
    IN  IF ~rc.ok THEN {Outcome(ContextError, st)}
        ELSE IF ~IsModelTable(table_key)
        THEN {Outcome([ErrorResult("Table is not accessible.") EXCEPT
                         !.table = call.table, !.allowed = ModelTableKeys], st)}
        ELSE IF rc.db \in st.broken THEN {Outcome(PendingRollback, st)}
        ELSE {Outcome([BaseResult EXCEPT !.table = table_key, !.records = SerializeAll(rs)],
                      st) :
                rs \in QueryModelRecords(st.rows, rc.user_id, table_key, record_limit)}


\* db.add(record); db.commit(); db.refresh(record) of create_table_record.
CommitInsert(db, table_key, prepared, st) ==
    LET row == NewRow(table_key, prepared, st.clock) IN
    IF db \in st.broken THEN Outcome(PendingRollback, st)
    ELSE IF ~RowAccepted(row, st.rows)
    THEN Outcome(Raise("IntegrityError"), [st EXCEPT !.broken = @ \cup {db}])
    ELSE Outcome([BaseResult EXCEPT !.table = table_key,
                                    !.records = <<SerializeInstance(row)>>],
                 [st EXCEPT !.rows = @ \cup {row}, !.clock = @ + 1])

\* create_table_record
CreateTableRecord(ctx, call, st) ==
    LET rc == RequireContext(ctx)
        table_key == TableKey(call.table)
        meta == WritableMeta(table_key)
        pe == PrepareRecordKwargs(meta, call.data, TRUE, rc.user_id)
        prepared == ApplyTableDefaults(table_key, pe.prepared, call.data)
        missing == EnsureRequiredFields(meta, prepared)
    IN  IF ~rc.ok THEN {Outcome(ContextError, st)}
        ELSE IF ~IsWritableTable(table_key)
        THEN {Outcome([ErrorResult("Table is not writable.") EXCEPT
                         !.table = call.table, !.allowed = WritableTableKeys], st)}
        ELSE IF missing # << >> \/ pe.errors # {}
        THEN {Outcome([ErrorResult("validation") EXCEPT
                         !.invalid = pe.errors, !.missing = missing], st)}
        ELSE {CommitInsert(rc.db, table_key, prepared, st)}

\* setattr(...); db.commit(); db.refresh(record) of update_table_record.
CommitUpdate(db, table_key, record, prepared, errors, st) ==
    LET row == UpdatedRow(record, prepared, st.clock) IN
    IF ~RowAccepted(row, st.rows \ {record})
    THEN Outcome(Raise("IntegrityError"), [st EXCEPT !.broken = @ \cup {db}])
    ELSE Outcome([BaseResult EXCEPT !.table = table_key,
                                    !.records = <<SerializeInstance(row)>>,
                                    !.warnings = errors],
                 [st EXCEPT !.rows = (@ \ {record}) \cup {row},
                            !.clock = IF row = record THEN @ ELSE @ + 1])

\* update_table_record
UpdateTableRecord(ctx, call, st) ==
    LET rc == RequireContext(ctx)
        table_key == TableKey(call.table)
        meta == WritableMeta(table_key)
        fetched == FetchUserRecord(st.rows, meta, table_key, rc.user_id, call.record_id)
        pe == PrepareRecordKwargs(meta, call.data, FALSE, rc.user_id)
    IN  IF ~rc.ok THEN {Outcome(ContextError, st)}
        ELSE IF ~IsWritableTable(table_key)
        THEN {Outcome([ErrorResult("Table is not writable.") EXCEPT
                         !.table = call.table, !.allowed = WritableTableKeys], st)}
        ELSE IF ~fetched.ok THEN {Outcome(Raise("Invalid record_id"), st)}
        ELSE IF rc.db \in st.broken THEN {Outcome(PendingRollback, st)}
        ELSE IF fetched.found = {}
        THEN {Outcome(ErrorResult("Record not found or access denied."), st)}
        ELSE IF DOMAIN pe.prepared = {} /\ pe.errors = {}
        THEN {Outcome(ErrorResult("No valid fields provided for update."), st)}
        ELSE {CommitUpdate(rc.db, table_key, record, pe.prepared, pe.errors, st) :
                record \in fetched.found}

\* The names of _TOOL_MAP.
ToolNames ==
    {"get_user_snapshot", "get_recent_transactions", "get_active_goals",
     "get_table_records", "create_table_record", "update_table_record"}

\* tool.invoke(args) for a tool of _TOOL_MAP.
ToolInvoke(ctx, call, st) ==
    CASE call.name = "get_user_snapshot" -> GetUserSnapshot(ctx, call, st)
      [] call.name = "get_recent_transactions" -> GetRecentTransactions(ctx, call, st)
      [] call.name = "get_active_goals" -> GetActiveGoals(ctx, call, st)
      [] call.name = "get_table_records" -> GetTableRecords(ctx, call, st)
      [] call.name = "create_table_record" -> CreateTableRecord(ctx, call, st)
      [] OTHER -> UpdateTableRecord(ctx, call, st)

\* A variant of the dispatch that lets a tool's exception leave the loop.
ExecuteCallNoCatch(ctx, call, st) ==
    IF call.name \notin ToolNames
    THEN {[res |-> ErrorResult("Tool is not available."), st |-> st, caught |-> FALSE]}
    ELSE {[res |-> o.res, st |-> o.st, caught |-> FALSE] : o \in ToolInvoke(ctx, call, st)}

\* The body of the loop over response.tool_calls in _llm_node: the tool
\* result of one call.  An exception of the tool is caught (caught = TRUE) and
\* becomes {"error": str(exc)}.
ExecuteCall(ctx, call, st) ==
    IF call.name \notin ToolNames
    THEN {[res |-> ErrorResult("Tool is not available."), st |-> st, caught |-> FALSE]}
    ELSE {[res |-> [o.res EXCEPT !.raised = FALSE], st |-> o.st, caught |-> o.res.raised] :
            o \in ToolInvoke(ctx, call, st)}

(***************************************************************************)
(* Messages.  A message is [role, text, payload, tool_calls, name,         *)
(* tool_call_id]; role "ai" is an AIMessage, "human" a HumanMessage,       *)
(* "system" a SystemMessage and "tool" a ToolMessage.                      *)
(***************************************************************************)
Msg(role, text) ==
    [role |-> role, text |-> text, payload |-> BaseResult, tool_calls |-> << >>,
     name |-> "", tool_call_id |-> ""]
AIMessage(text, calls) == [Msg("ai", text) EXCEPT !.tool_calls = calls]

\* ToolMessage(content=_dump_tool_output(tool_result), name=tool_name or
\* "unknown", tool_call_id=call_id or "")
ToolMessage(call, tool_result) ==
    [Msg("tool", "json") EXCEPT
       !.payload = tool_result,
       !.name = IF call.name = "" THEN "unknown" ELSE call.name,
       !.tool_call_id = PyOr(call.id, Str("")).v]

\* _convert_history
ConvertHistory(history) ==
    [i \in 1..Len(history) |->
       IF history[i].role = "assistant" THEN Msg("ai", history[i].content)
       ELSE Msg("human", history[i].content)]

\* _format_memory_messages
FormatMemoryMessages(memories) ==
    LET line(m) == "- " \o (IF m.topic # "" THEN "[" \o m.topic \o "] " ELSE "") \o m.content
        RECURSIVE join(_)
        join(ms) == IF Len(ms) = 1 THEN line(ms[1])
                    ELSE line(ms[1]) \o "\n" \o join(Tail(ms))
    IN  IF memories = << >> THEN << >>
        ELSE << Msg("system", "Relevant previous context:\n" \o join(memories)) >>

\* _load_memory_messages, given what fetch_relevant_memories returns.
LoadMemoryMessages(db, user_id, memories) ==
    IF db = NoSession \/ ~Truthy(user_id) THEN << >> ELSE FormatMemoryMessages(memories)

\* The message list invoke_chat composes before the loop.
InitialMessages(message, history, user_id, db, memories) ==
    << Msg("system", "_SUPERVISOR_PROMPT") >>
      \o LoadMemoryMessages(db, user_id, memories)
      \o ConvertHistory(history)
      \o << Msg("human", message) >>

\* A variant that answers with the first model message.
ExtractReplyFirst(final) ==
    LET ai_messages == SelectSeq(final, LAMBDA m : m.role = "ai") IN
    IF ai_messages = << >> THEN "" ELSE ai_messages[1].text

\* The reply invoke_chat extracts from the final message list.
ExtractReply(final) ==
    LET ai_messages == SelectSeq(final, LAMBDA m : m.role = "ai") IN
    IF ai_messages = << >> THEN "" ELSE ai_messages[Len(ai_messages)].text


(***************************************************************************)
(* Inputs: the users, the seed database, and what the chat model supplies. *)
(***************************************************************************)
UserA == Uuid(1)
UserB == Uuid(2)
Session1 == "session1"

\* A row as the database holds it after an INSERT at clock k.
SeedRow(tbl, k, fields) == NewRow(tbl, fields, k)

SeedRows ==
    { SeedRow("users", 1, [id |-> UserA, email |-> Str("a@x.in"), full_name |-> Str("A")]),
      SeedRow("users", 2, [id |-> UserB, email |-> Str("b@x.in"), full_name |-> Str("B")]),
      SeedRow("goals", 3, [user_id |-> UserA, title |-> Str("Laptop"),
                           target_amount |-> Dec(80000)]),
      SeedRow("goals", 4, [user_id |-> UserB, title |-> Str("Bike"),
                           target_amount |-> Dec(500)]),
      SeedRow("transactions", 5, [user_id |-> UserA, type |-> Str("income"),
                                  amount |-> Dec(80000), date |-> DateV("2024-01-05")]),
      SeedRow("transactions", 6, [user_id |-> UserB, type |-> Str("expense"),
                                  amount |-> Dec(500), date |-> DateV("2024-01-07")]),
      SeedRow("goals", 7, [user_id |-> UserA, title |-> Str("Fund"),
                           target_amount |-> Dec(500)]),
      SeedRow("pulse_history", 8, [user_id |-> UserA, score |-> Num(60), trend |-> Str("up"),
                                   volatility |-> Dec(0), savings_rate |-> Dec(0)]),
      SeedRow("pulse_history", 9, [user_id |-> UserA, score |-> Num(75), trend |-> Str("up"),
                                   volatility |-> Dec(0), savings_rate |-> Dec(0)]) }

\* A tool call of a model response: name, correlation id and arguments.
Call(name, id, table, limit, limit2, record_id, data) ==
    [name |-> name, id |-> id, table |-> table, limit |-> limit, limit2 |-> limit2,
     record_id |-> record_id, data |-> data]
NoCall == Call("", Null, "", 0, 0, Null, EmptyDict)

\* Every dictionary that gives some of the keys of opts one of the key's values.
RECURSIVE Dicts(_, _)
Dicts(keys, opts) ==
    IF keys = {} THEN {EmptyDict}
    ELSE LET k == CHOOSE x \in keys : TRUE
             rest == Dicts(keys \ {k}, opts)
         IN  rest \cup {Put(d, k, x) : d \in rest, x \in opts[k]}

GoalOptions ==
    [title |-> {Str("Trip"), Str("")},
     description |-> {Str("Goa")},
     target_amount |-> {Num(80000), Num(0), Str("abc")},
     status |-> {Str("paused"), Str("bogus"), Null},
     current_amount |-> {Str("500"), Str("lots")},
     id |-> {UuidStr(4)},
     user_id |-> {PyStr(UserB)},
     created_at |-> {Str("2020-01-01T00:00:00")},
     updated_at |-> {Str("2020-01-01T00:00:00")}]
TransactionOptions ==
    [type |-> {Str("expense"), Str("bogus")},
     amount |-> {Num(500), Str("abc")},
     date |-> {Str("2024-03-01"), Str("soon")},
     currency |-> {Str("USD"), Null},
     ledger_status |-> {Str("cleared")},
     is_recurring |-> {Str("yes")},
     user_id |-> {PyStr(UserB)}]
UpdateOptions ==
    [title |-> {Str("")},
     status |-> {Str("paused"), Str("bogus"), Null},
     current_amount |-> {Str("500"), Str("lots")},
     id |-> {UuidStr(4)},
     user_id |-> {PyStr(UserB)},
     created_at |-> {Str("2020-01-01T00:00:00")}]
GoalData == Dicts(DOMAIN GoalOptions, GoalOptions)
TransactionData == Dicts(DOMAIN TransactionOptions, TransactionOptions)
UpdateData == Dicts(DOMAIN UpdateOptions, UpdateOptions)
\* Record ids: a goal of user A, a goal of user B, no record, not a uuid.
RecordIds == {UuidStr(3), UuidStr(4), UuidStr(99), Str("goal-3")}

\* Pulse records the chat model may ask to create, with and without a
\* calculation time of its own.
PulseData ==
    LET base == [score |-> Num(60), trend |-> Str("up"), volatility |-> Num(0),
                 savings_rate |-> Num(0)]
    IN  {base, Put(base, "calculated_at", Str("2020-01-01T00:00:00")),
         Put(base, "id", UuidStr(4))}
\* The tool invocations of the tool harness.
HarnessCalls ==
    {Call("create_table_record", Null, "goals", 0, 0, Null, d) : d \in GoalData}
    \cup {Call("create_table_record", Null, "transactions", 0, 0, Null, d) :
            d \in TransactionData}
    \cup {Call("create_table_record", Null, t, 0, 0, Null, d) :
            t \in {"users", "payments"}, d \in {EmptyDict, [email |-> Str("c@x.in")]}}
    \cup {Call("update_table_record", Null, "goals", 0, 0, r, d) :
            r \in RecordIds, d \in UpdateData}
    \cup {Call("update_table_record", Null, t, 0, 0, UuidStr(5), [amount |-> Num(500)]) :
            t \in {"Transactions", "users"}}
    \cup {Call("create_table_record", Null, t, 0, 0, Null, EmptyDict) :
            t \in SeqToSet(ModelTableKeys)}
    \cup {Call("update_table_record", Null, t, 0, 0, UuidStr(99), [status |-> Str("paused")]) :
            t \in SeqToSet(ModelTableKeys) \cup {"payments"}}
    \cup {Call("get_table_records", Null, t, 5, 0, Null, EmptyDict) :
            t \in SeqToSet(ModelTableKeys)}
    \cup {Call("get_user_snapshot", Null, "", l, l, Null, EmptyDict) : l \in {1, 5}}
    \cup {Call(n, Null, "", l, 0, Null, EmptyDict) :
            n \in {"get_recent_transactions", "get_active_goals"}, l \in {0, 5}}
    \cup {Call("get_table_records", Null, t, l, 0, Null, EmptyDict) :
            t \in {"goals", " Goals ", "transactions", "users", "payments", "pulse_history"},
            l \in {1, 100}}
    \cup {Call("create_table_record", Null, "pulse_history", 0, 0, Null, d) : d \in PulseData}
    \cup {Call("update_table_record", Null, "pulse_history", 0, 0, UuidStr(8), d) :
            d \in {[calculated_at |-> Str("2020-01-01T00:00:00")],
                    [calculated_at |-> Str("2020-01-01T00:00:00"), score |-> Num(75)]}}
    \cup {Call("create_table_record", Null, "whatsapp_nudges", 0, 0, Null, d) :
            d \in {[message |-> Str("hi")],
                    [message |-> Str("hi"), sent_at |-> Str("2020-01-01T00:00:00")]}}

\* The tool calls the chat model issues in the conversation loop: a tool that
\* does not exist, a read, an update whose record id makes the tool raise,
\* and a create.
LoopCalls ==
    { Call("send_money", Str("call_a"), "", 0, 0, Null, EmptyDict),
      Call("get_active_goals", Str("call_b"), "", 5, 0, Null, EmptyDict),
      Call("update_table_record", Null, "goals", 0, 0, Str("goal-3"),
           [status |-> Str("paused")]),
      Call("create_table_record", Str("call_c"), "goals", 0, 0, Null,
           [target_amount |-> Num(80000)]) }
\* The call of a model stub that requests a tool in every response.
StubCall == Call("get_active_goals", Str("call_s"), "", 5, 0, Null, EmptyDict)

\* Sequences of 1..n calls.
CallSeqs(n) == UNION {[1..k -> LoopCalls] : k \in 1..n}

\* The arguments of invoke_chat: (user_id, db) and the history.
TurnContexts == {<<PyStr(UserA), Session1>>, <<Null, NoSession>>}
Histories ==
    { << >>,
      << [role |-> "user", content |-> "hi"],
         [role |-> "assistant", content |-> "earlier answer"] >> }
\* What fetch_relevant_memories returns to _load_memory_messages.
MemoryFetches ==
    { << >>, << [topic |-> "conversation", content |-> "User Facts:\n- Name: Rohan"] >> }

\* The longest message list of a turn whose model stops requesting tools.
MaxTurnMsgs == 5 + 2 * MaxToolCalls + 1


(***************************************************************************)
(* State.                                                                  *)
(***************************************************************************)
VARIABLES
    store,        \* the database and its sessions: [rows, clock, broken]
    ctxDb,        \* _db_session_ctx
    ctxUser,      \* _user_id_ctx
    dbToken,      \* invoke_chat's db_token: [set, old]
    userToken,    \* invoke_chat's user_token: [set, old]
    pc,           \* the position of the turn
    turn,         \* the arguments of invoke_chat: [user_id, db]
    initial,      \* initial_messages
    messages,     \* the message list of _llm_node
    response,     \* the model response being handled
    callIdx,      \* the index of the next call of response.tool_calls
    lastCall,     \* call: the tool call executed last
    lastResult,   \* tool_result: its result
    caught,       \* whether the last tool call raised and was caught
    exc,          \* the exception leaving the loop ("" when none)
    reply,        \* the reply invoke_chat returns
    llmKind,      \* the chat model: "free", or "stub" (always requests a tool)
    issued,       \* tool calls the free chat model has issued in the turn
    truncated,    \* whether messages dropped its oldest entries (stub model)
    cv,           \* the two ContextVars in each execution context: [db, user]
    tasks,        \* concurrent turns: [pc, user_id, db, dbToken, userToken, done, seen]
    mem,          \* the agent_memories table and the database clock: [rows, clock]
    memLast,      \* the last store_memory call and what it did
    stores,       \* store_memory calls made so far
    jobs,         \* concurrent memory-persistence jobs
    http          \* the /message request and what became of it

turnVars == << store, ctxDb, ctxUser, dbToken, userToken, pc, turn, initial, messages,
               response, callIdx, lastCall, lastResult, caught, exc, reply, llmKind,
               issued, truncated >>
sideVars == << cv, tasks, mem, memLast, stores, jobs, http >>
vars == << turnVars, sideVars >>

NoToken == [set |-> FALSE, old |-> Null]
Ctx == [db |-> ctxDb, user |-> ctxUser]

\* The concurrent turns and the execution context each runs in.
TaskIds == {1, 2}
Session2 == "session2"
NoSeen == [ok |-> FALSE, db |-> NoSession, user_id |-> Null]
TasksIdle ==
    [t \in TaskIds |->
       [pc |-> "idle", user_id |-> Null, db |-> NoSession, dbToken |-> NoToken,
        userToken |-> NoToken, done |-> 0, seen |-> NoSeen]]
\* ContextVar(..., default=None) in every context.
CvIdle == [c \in TaskIds |-> [db |-> NoSession, user |-> Null]]

\* The memory-persistence jobs, and store_memory not called yet.
JobIds == {1, 2}
NoEntry == [id |-> 0]
JobsIdle ==
    [j \in JobIds |->
       [pc |-> "idle", user_id |-> Null, content |-> << >>, message_count |-> 0,
        latest |-> NoEntry, start |-> [rows |-> {}, clock |-> 1]]]
NoStore ==
    [user_id |-> Null, topic |-> "", content |-> << >>, embedded |-> << >>,
     latest |-> NoEntry, writes |-> 0, returned |-> NoEntry, again |-> FALSE]

\* No request: status 0 is "no response yet"; tasks are the background tasks
\* added to the request, job is how the last task that ran ended, and
\* job_raised whether an exception left it.
NoRequest ==
    [persist_memories |-> FALSE, status |-> 0, response |-> "", detail |-> "",
     tasks |-> << >>, job |-> "", job_raised |-> FALSE]

\* Nothing runs beside the turn.
SideIdle ==
    /\ cv = CvIdle
    /\ tasks = TasksIdle
    /\ mem = [rows |-> {}, clock |-> 1]
    /\ memLast = NoStore
    /\ stores = 0
    /\ jobs = JobsIdle
    /\ http = NoRequest

InitCommon ==
    /\ store = [rows |-> SeedRows, clock |-> 10, broken |-> {}]
    /\ ctxDb = NoSession
    /\ ctxUser = Null
    /\ dbToken = NoToken
    /\ userToken = NoToken
    /\ response = AIMessage("", << >>)
    /\ callIdx = 0
    /\ lastCall = NoCall
    /\ lastResult = BaseResult
    /\ caught = FALSE
    /\ exc = ""
    /\ reply = ""
    /\ issued = 0
    /\ truncated = FALSE

Init ==
    /\ InitCommon
    /\ SideIdle
    /\ pc = "start"
    /\ turn = [user_id |-> Null, db |-> NoSession]
    /\ initial = << >>
    /\ messages = << >>
    /\ llmKind \in {"free", "stub"}

\* A variant that puts the new message in front of the list.
AppendMsgFront(ms, m) == IF Len(ms) < MaxTurnMsgs THEN << m >> \o ms ELSE ms

\* The message list with one more message.  The list of a turn is unbounded
\* when the model never stops requesting tools; the model then keeps its
\* last MaxTurnMsgs entries and records that it dropped some.
AppendMsg(ms, m) == IF Len(ms) < MaxTurnMsgs THEN Append(ms, m) ELSE Append(Tail(ms), m)

\* invoke_chat, lines 736-740: compose the initial messages.
Compose(c, history, memories) ==
    /\ pc = "start"
    /\ turn' = [user_id |-> c[1], db |-> c[2]]
    /\ initial' = InitialMessages("hello", history, c[1], c[2], memories)
    /\ pc' = "bind"
    /\ UNCHANGED << store, ctxDb, ctxUser, dbToken, userToken, messages, response,
                    callIdx, lastCall, lastResult, caught, exc, reply, llmKind, issued,
                    truncated >>
    /\ UNCHANGED sideVars

\* invoke_chat, lines 742-745: bind the context and enter the graph node.
Bind ==
    /\ pc = "bind"
    /\ dbToken' = IF turn.db # NoSession THEN [set |-> TRUE, old |-> Str(ctxDb)] ELSE NoToken
    /\ ctxDb' = IF turn.db # NoSession THEN turn.db ELSE ctxDb
    /\ userToken' = IF Truthy(turn.user_id) THEN [set |-> TRUE, old |-> ctxUser] ELSE NoToken
    /\ ctxUser' = IF Truthy(turn.user_id) THEN turn.user_id ELSE ctxUser
    /\ messages' = initial
    /\ pc' = "llm"
    /\ UNCHANGED << store, turn, initial, response, callIdx, lastCall, lastResult, caught,
                    exc, reply, llmKind, issued, truncated >>
    /\ UNCHANGED sideVars

\* Where _llm_node goes after a model response: into the loop over its tool
\* calls, or out of the while loop.
AfterResponse(resp) == IF resp.tool_calls # << >> THEN "tools" ELSE "release"

\* The responses the chat model may give.
Responses ==
    IF llmKind = "stub" THEN {AIMessage("", <<StubCall>>)}
    ELSE {AIMessage(t, << >>) : t \in {"", "final answer"}}
         \cup {AIMessage("working", cs) : cs \in CallSeqs(MaxToolCalls - issued)}

\* llm_with_tools.invoke(messages); messages.append(response)
LlmInvoke ==
    /\ pc = "llm"
    /\ \/ /\ \E resp \in Responses :
               /\ response' = resp
               /\ truncated' = (truncated \/ Len(messages) >= MaxTurnMsgs)
               /\ messages' = AppendMsg(messages, resp)
               /\ issued' = IF llmKind = "stub" THEN issued ELSE issued + Len(resp.tool_calls)
               /\ pc' = AfterResponse(resp)
          /\ callIdx' = 1
          /\ exc' = exc
       \/ \* the model call raises: the exception leaves _llm_node
          /\ llmKind = "free"
          /\ exc' = "ModelUnavailable"
          /\ pc' = "release"
          /\ UNCHANGED << response, truncated, messages, issued, callIdx >>
    /\ UNCHANGED << store, ctxDb, ctxUser, dbToken, userToken, turn, initial, lastCall,
                    lastResult, caught, reply, llmKind >>
    /\ UNCHANGED sideVars

\* A variant that goes back to the model after the first call of a response.
AfterCallEarly(resp, idx) == "llm"

\* Where the for loop over response.tool_calls goes after call idx.
AfterCall(resp, idx) == IF idx < Len(resp.tool_calls) THEN "tools" ELSE "llm"

\* One iteration of the for loop of _llm_node: execute a tool call and
\* append its ToolMessage.
ToolStep ==
    /\ pc = "tools"
    /\ \E o \in ExecuteCall(Ctx, response.tool_calls[callIdx], store) :
         /\ lastCall' = response.tool_calls[callIdx]
         /\ lastResult' = o.res
         /\ caught' = o.caught
         /\ store' = o.st
         /\ IF o.res.raised
            THEN /\ exc' = o.res.error
                 /\ pc' = "release"
                 /\ UNCHANGED << messages, callIdx, truncated >>
            ELSE /\ truncated' = (truncated \/ Len(messages) >= MaxTurnMsgs)
                 /\ messages' = AppendMsg(messages, ToolMessage(response.tool_calls[callIdx], o.res))
                 /\ callIdx' = callIdx + 1
                 /\ pc' = AfterCall(response, callIdx)
                 /\ exc' = exc
    /\ UNCHANGED << ctxDb, ctxUser, dbToken, userToken, turn, initial, response, reply,
                    llmKind, issued >>
    /\ UNCHANGED sideVars

\* A variant that leaves the variable as the turn set it.
ResetTokenKeep(token, current) == current

\* if token is not None: var.reset(token): the variable gets back the value
\* it had before the set() that returned the token.
ResetToken(token, current) == IF token.set THEN token.old ELSE current

\* invoke_chat, lines 746-750: the finally block resets the context.
Release ==
    /\ pc = "release"
    /\ ctxDb' = ResetToken(dbToken, Str(ctxDb)).v
    /\ ctxUser' = ResetToken(userToken, ctxUser)
    /\ pc' = IF exc = "" THEN "extract" ELSE "raised"
    /\ UNCHANGED << store, dbToken, userToken, turn, initial, messages, response, callIdx,
                    lastCall, lastResult, caught, exc, reply, llmKind, issued, truncated >>
    /\ UNCHANGED sideVars

\* invoke_chat, lines 752-756: extract the reply and return.
Return ==
    /\ pc = "extract"
    /\ reply' = ExtractReply(messages)
    /\ pc' = "returned"
    /\ UNCHANGED << store, ctxDb, ctxUser, dbToken, userToken, turn, initial, messages,
                    response, callIdx, lastCall, lastResult, caught, exc, llmKind, issued,
                    truncated >>
    /\ UNCHANGED sideVars

Next ==
    \/ \E c \in TurnContexts, h \in Histories, m \in MemoryFetches : Compose(c, h, m)
    \/ Bind
    \/ LlmInvoke
    \/ ToolStep
    \/ Release
    \/ Return

\* One turn of the conversation loop.
Spec == Init /\ [][Next]_vars

\* What every iteration of the for loop over response.tool_calls does to the
\* position of the turn, whatever its tool returns: ToolStep is the only
\* step from "tools", it is always possible there, and it moves to the next
\* call, back to the model, or out with an exception.
ToolIteration ==
    /\ pc = "tools"
    /\ pc' \in {"tools", "llm", "release"}
    /\ callIdx' \in {callIdx, callIdx + 1}

\* The turn keeps running: a model invocation returns, an iteration of the
\* tool loop completes, the finally block and the return are executed.
FairSpec ==
    /\ Spec
    /\ WF_vars(LlmInvoke)
    /\ WF_<<pc, callIdx>>(ToolIteration)
    /\ WF_vars(Release)
    /\ WF_vars(Return)

(***************************************************************************)
(* The tool harness: a turn bound to a user invokes one tool of the tool   *)
(* surface (tool.invoke(args) of _llm_node) with arguments of HarnessCalls.*)
(***************************************************************************)
ToolInit ==
    /\ InitCommon
    /\ SideIdle
    /\ pc = "bind"
    /\ turn \in {[user_id |-> PyStr(u), db |-> Session1] : u \in {UserA, UserB}}
    /\ initial = InitialMessages("hello", << >>, turn.user_id, turn.db, << >>)
    /\ messages = << >>
    /\ llmKind = "free"

InvokeTool ==
    /\ pc = "llm"
    /\ \E call \in HarnessCalls :
         \E o \in ExecuteCall(Ctx, call, store) :
            /\ lastCall' = call
            /\ lastResult' = o.res
            /\ caught' = o.caught
            /\ store' = o.st
    /\ pc' = "called"
    /\ UNCHANGED << ctxDb, ctxUser, dbToken, userToken, turn, initial, messages, response,
                    callIdx, exc, reply, llmKind, issued, truncated >>
    /\ UNCHANGED sideVars

ToolNext == Bind \/ InvokeTool

ToolSpec == ToolInit /\ [][ToolNext]_vars

\* Calls with valid arguments that the chat model may issue after an earlier
\* call of the turn: a read, a create and an update of the acting user's goal.
RetryCalls ==
    { Call("get_active_goals", Null, "", 5, 0, Null, EmptyDict),
      Call("create_table_record", Null, "goals", 0, 0, Null, [target_amount |-> Num(80000)]),
      Call("update_table_record", Null, "goals", 0, 0,
           IF turn.user_id = PyStr(UserA) THEN UuidStr(3) ELSE UuidStr(4),
           [status |-> Str("paused")]) }

\* The next iteration of the loop over the tool calls of the turn: a second
\* call on the same bound context and database handle.
InvokeRetry ==
    /\ pc = "called"
    /\ \E call \in RetryCalls :
         \E o \in ExecuteCall(Ctx, call, store) :
            /\ lastCall' = call
            /\ lastResult' = o.res
            /\ caught' = o.caught
            /\ store' = o.st
    /\ pc' = "retried"
    /\ UNCHANGED << ctxDb, ctxUser, dbToken, userToken, turn, initial, messages, response,
                    callIdx, exc, reply, llmKind, issued, truncated >>
    /\ UNCHANGED sideVars

RetryNext == Bind \/ InvokeTool \/ InvokeRetry

\* Two successive tool calls of one turn.
RetrySpec == ToolInit /\ [][RetryNext]_vars


(***************************************************************************)
(* Concurrent turns.  Each turn (request) runs in an execution context of  *)
(* its own; a ContextVar holds one value per context.                      *)
(***************************************************************************)
\* The turn that is not running.
TurnIdle ==
    /\ InitCommon
    /\ pc = "start"
    /\ turn = [user_id |-> Null, db |-> NoSession]
    /\ initial = << >>
    /\ messages = << >>
    /\ llmKind = "free"

\* A variant with one process-wide slot for every turn.
ContextOfShared(t) == 1

\* The context whose values ContextVar.get / set / reset of turn t use.
ContextOf(t) == t

\* The arguments of the turn of task t: a user and a session of its own, or
\* none (an anonymous turn).
TaskArgs(t) ==
    { IF t = 1 THEN [user_id |-> PyStr(UserA), db |-> Session1]
               ELSE [user_id |-> PyStr(UserB), db |-> Session2],
      [user_id |-> Null, db |-> NoSession] }

ConcInit ==
    /\ TurnIdle
    /\ cv = CvIdle
    /\ \E a1 \in TaskArgs(1), a2 \in TaskArgs(2) :
          tasks = [t \in TaskIds |->
                     [TasksIdle[t] EXCEPT !.pc = "bind",
                                          !.user_id = IF t = 1 THEN a1.user_id ELSE a2.user_id,
                                          !.db = IF t = 1 THEN a1.db ELSE a2.db]]
    /\ mem = [rows |-> {}, clock |-> 1]
    /\ memLast = NoStore
    /\ stores = 0
    /\ jobs = JobsIdle
    /\ http = NoRequest

\* invoke_chat, lines 742-743, of turn t.
TaskBind(t) ==
    LET a == tasks[t]
        c == ContextOf(t)
    IN  /\ a.pc = "bind"
        /\ tasks' = [tasks EXCEPT
                       ![t].pc = "run",
                       ![t].dbToken = IF a.db # NoSession
                                      THEN [set |-> TRUE, old |-> Str(cv[c].db)] ELSE NoToken,
                       ![t].userToken = IF Truthy(a.user_id)
                                        THEN [set |-> TRUE, old |-> cv[c].user] ELSE NoToken]
        /\ cv' = [cv EXCEPT ![c] = [db |-> IF a.db # NoSession THEN a.db ELSE cv[c].db,
                                    user |-> IF Truthy(a.user_id) THEN a.user_id
                                             ELSE cv[c].user]]
        /\ UNCHANGED << turnVars, mem, memLast, stores, jobs, http >>

\* A tool execution of turn t: _require_context reads the two variables.
TaskTool(t) ==
    /\ tasks[t].pc = "run"
    /\ tasks[t].done < MaxToolCalls
    /\ tasks' = [tasks EXCEPT ![t].done = @ + 1,
                              ![t].seen = RequireContext(cv[ContextOf(t)])]
    /\ UNCHANGED << turnVars, cv, mem, memLast, stores, jobs, http >>

\* invoke_chat, lines 746-750, of turn t.
TaskRelease(t) ==
    LET a == tasks[t]
        c == ContextOf(t)
    IN  /\ a.pc = "run"
        /\ tasks' = [tasks EXCEPT ![t].pc = "done"]
        /\ cv' = [cv EXCEPT ![c] = [db |-> ResetToken(a.dbToken, Str(cv[c].db)).v,
                                    user |-> ResetToken(a.userToken, cv[c].user)]]
        /\ UNCHANGED << turnVars, mem, memLast, stores, jobs, http >>

ConcNext == \E t \in TaskIds : TaskBind(t) \/ TaskTool(t) \/ TaskRelease(t)

\* Two turns in any interleaving.
ConcSpec == ConcInit /\ [][ConcNext]_vars

(***************************************************************************)
(* The memory service.  A text is the sequence of its lines; a line is     *)
(* [k, v] with k what _parse_memory_sections takes the stripped line for:  *)
(* "blank", "facts" (its lower case starts with "user facts"),             *)
(* "followups" (starts with "follow-ups"), "bullet" (starts with "-", v the*)
(* stripped text after the dash) or "other"; v is the text.                *)
(***************************************************************************)
MAX_MERGE_UPDATES == 4

Line(k, v) == [k |-> k, v |-> v]
Bullet(v) == Line("bullet", v)

\* value.upper() == "NO_MEMORY"
IsNoMemory(v) == v \in {"NO_MEMORY", "no_memory", "No_Memory"}

RECURSIVE ParseLines(_, _, _, _)
ParseLines(lines, section, facts, followups) ==
    IF lines = << >> THEN [facts |-> facts, followups |-> followups]
    ELSE LET line == Head(lines)
             rest == Tail(lines)
         IN  CASE line.k = "blank" -> ParseLines(rest, section, facts, followups)
               [] line.k = "facts" -> ParseLines(rest, "facts", facts, followups)
               [] line.k = "followups" -> ParseLines(rest, "followups", facts, followups)
               [] line.k = "bullet" ->
                    IF IsNoMemory(line.v) THEN ParseLines(rest, section, facts, followups)
                    ELSE IF section = "facts"
                         THEN ParseLines(rest, section, Append(facts, line.v), followups)
                    ELSE IF section = "followups"
                         THEN ParseLines(rest, section, facts, Append(followups, line.v))
                    ELSE ParseLines(rest, section, facts, followups)
               [] OTHER -> ParseLines(rest, section, facts, followups)

ParseMemorySections(content) == ParseLines(content, "none", << >>, << >>)

BulletLines(items) == [i \in 1..Len(items) |-> Bullet(items[i])]

FormatMemoryContent(facts, followups) ==
    << Line("facts", "User Facts:") >>
      \o (IF facts # << >> THEN BulletLines(facts) ELSE << Bullet("NO_MEMORY") >>)
      \o << Line("blank", ""), Line("followups", "Follow-ups:") >>
      \o (IF followups # << >> THEN BulletLines(followups) ELSE << Bullet("NO_MEMORY") >>)

\* A variant that appends every new item.
RECURSIVE MergeUniqueAppendAll(_, _)
MergeUniqueAppendAll(existing, new_items) ==
    IF new_items = << >> THEN [merged |-> existing, changed |-> FALSE]
    ELSE [merged |-> MergeUniqueAppendAll(Append(existing, Head(new_items)),
                                          Tail(new_items)).merged,
          changed |-> TRUE]

RECURSIVE MergeUnique(_, _)
MergeUnique(existing, new_items) ==
    IF new_items = << >> THEN [merged |-> existing, changed |-> FALSE]
    ELSE LET item == Head(new_items)
         IN  IF item # "" /\ item \notin SeqToSet(existing)
             THEN [merged |-> MergeUnique(Append(existing, item), Tail(new_items)).merged,
                   changed |-> TRUE]
             ELSE MergeUnique(existing, Tail(new_items))

\* not text.strip()
IsBlankText(text) == \A i \in 1..Len(text) : text[i].k = "blank"

\* The embedding collaborator is a function of the text; the empty list,
\* and no embedding (None).
EmbedQuery(text) == [of |-> text]
EmptyVector == [of |-> << >>]
NoVector == [none |-> TRUE]

GenerateEmbedding(text) == IF IsBlankText(text) THEN EmptyVector ELSE EmbedQuery(text)

\* The texts sent to the embedding collaborator by generate_embedding(text).
EmbedCalls(text) == IF IsBlankText(text) THEN << >> ELSE << text >>

\* dict.update / dict.setdefault on a metadata map.
MetaUpdate(meta, metadata) ==
    [k \in DOMAIN meta \cup DOMAIN metadata |->
       IF k \in DOMAIN metadata THEN metadata[k] ELSE meta[k]]
MetaSetDefault(meta, key, value) ==
    IF key \in DOMAIN meta THEN meta ELSE MetaUpdate(meta, [k \in {key} |-> value])

\* int((latest.meta or {}).get("entry_count", 1))
EntryCount(entry) == IF "entry_count" \in DOMAIN entry.meta THEN entry.meta["entry_count"] ELSE 1

\* Variants of the cap test.
ReachedCapNever(entry_count) == FALSE
ReachedCapLate(entry_count) == entry_count > MAX_MERGE_UPDATES

ReachedCap(entry_count) == entry_count >= MAX_MERGE_UPDATES

TopicRows(m, user_id, topic) == {e \in m.rows : e.user_id = user_id /\ e.topic = topic}

\* select ... order by created_at desc limit 1; NoEntry when there is none.
LatestEntry(m, user_id, topic) ==
    LET rows == TopicRows(m, user_id, topic)
    IN  IF rows = {} THEN NoEntry
        ELSE CHOOSE e \in rows : \A o \in rows : o.created_at <= e.created_at

\* The UPDATE of a commit: the attributes that the call changed on the entry
\* it loaded are written to the row of that id.
WriteChanged(rows, loaded, updated) ==
    {IF e.id # loaded.id THEN e
     ELSE [e EXCEPT !.content = IF updated.content # loaded.content THEN updated.content ELSE @,
                    !.meta = IF updated.meta # loaded.meta THEN updated.meta ELSE @,
                    !.embedding = IF updated.embedding # loaded.embedding
                                  THEN updated.embedding ELSE @] : e \in rows}

\* _maybe_merge_with_latest after its lookup has loaded latest (NoEntry for
\* none): the entry returned (NoEntry for None), the store, and the number
\* of commits.
MergeIntoLatest(m, latest, content, metadata, embedding) ==
    LET entry_count == EntryCount(latest)
        old == ParseMemorySections(latest.content)
        new == ParseMemorySections(content)
        facts == MergeUnique(old.facts, new.facts)
        followups == MergeUnique(old.followups, new.followups)
        updated == [latest EXCEPT
                      !.content = FormatMemoryContent(facts.merged, followups.merged),
                      !.meta = [MetaUpdate(latest.meta, metadata)
                                  EXCEPT !["entry_count"] = entry_count + 1],
                      !.embedding = IF embedding # EmptyVector THEN embedding ELSE @]
    IN  IF latest = NoEntry THEN [entry |-> NoEntry, mem |-> m, writes |-> 0]
        ELSE IF ReachedCap(entry_count) THEN [entry |-> NoEntry, mem |-> m, writes |-> 0]
        ELSE IF ~facts.changed /\ ~followups.changed
             THEN [entry |-> latest, mem |-> m, writes |-> 0]
        ELSE LET rows == WriteChanged(m.rows, latest, updated)
             IN  [entry |-> CHOOSE e \in rows : e.id = latest.id,
                  mem |-> [m EXCEPT !.rows = rows],
                  writes |-> 1]

MaybeMergeWithLatest(m, user_id, topic, content, metadata, embedding) ==
    MergeIntoLatest(m, LatestEntry(m, user_id, topic), content, metadata, embedding)

\* The entry store_memory adds when nothing was merged.
NewMemory(m, user_id, content, topic, metadata) ==
    [id |-> m.clock, user_id |-> user_id, topic |-> topic, content |-> content,
     embedding |-> IF GenerateEmbedding(content) # EmptyVector
                   THEN GenerateEmbedding(content) ELSE NoVector,
     meta |-> MetaSetDefault(metadata, "entry_count", 1), created_at |-> m.clock]

\* store_memory without an embedding argument, as the chat path calls it:
\* the store afterwards and what the call did (the latest entry it found,
\* the entry it returned, the texts it embedded, its commits).
StoreMemory(m, user_id, content, topic, metadata) ==
    LET vector == GenerateEmbedding(content)
        cleaned_metadata == MetaSetDefault(metadata, "entry_count", 1)
        merged == MaybeMergeWithLatest(m, user_id, topic, content, cleaned_metadata, vector)
        memory == NewMemory(m, user_id, content, topic, metadata)
        call == [user_id |-> user_id, topic |-> topic, content |-> content,
                 embedded |-> EmbedCalls(content),
                 latest |-> LatestEntry(m, user_id, topic)]
    IN  IF merged.entry # NoEntry
        THEN [mem |-> merged.mem,
              last |-> call @@ [writes |-> merged.writes, returned |-> merged.entry]]
        ELSE [mem |-> [rows |-> m.rows \cup {memory}, clock |-> m.clock + 1],
              last |-> call @@ [writes |-> 1, returned |-> memory]]

(***************************************************************************)
(* The chat persistence path, one job after the other.                     *)
(***************************************************************************)
MaxStores == 5

\* What the summarization model may answer (stripped, not the sentinel).
Summaries ==
    { << Line("facts", "User Facts:"), Bullet("Name: Rohan") >>,
      << Line("facts", "User Facts:"), Bullet("Prefers conservative investing") >>,
      << Line("facts", "User Facts:"), Bullet("NO_MEMORY"), Line("blank", ""),
         Line("followups", "Follow-ups:"), Bullet("Review SIP") >>,
      << Line("facts", "user facts"), Bullet("Name: Rohan"), Bullet("Name: Rohan"),
         Line("followups", "Follow-ups:"), Bullet("no_memory") >>,
      << Line("followups", "Follow-ups:"), Bullet("Review SIP"), Bullet("Plan a trip") >>,
      << Line("other", "Nothing new was said.") >>,
      << Line("facts", "User Facts:"), Bullet("NO_MEMORY"), Line("blank", ""),
         Line("followups", "Follow-ups:"), Bullet("NO_MEMORY") >> }

\* The summaries of user B's turns.
SummariesB == {c \in Summaries : Len(c) = 2}

\* len(dialogue) of the turn of job k: the history grows by a human and an
\* assistant message per turn, and _recent_dialogue keeps the last 6.
MessageCount(k) == IF 2 * k < 6 THEN 2 * k ELSE 6

\* The metadata of the chat path.
ChatMetadata(n) == [source |-> "chat", message_count |-> n]

\* _persist_conversation_memory with a summary: store_memory is called and
\* returns.  The record of the call says whether it repeats the call before.
PersistConversationMemory ==
    /\ stores < MaxStores
    /\ \E user_id \in {UserA, UserB} :
       \E summary \in IF user_id = UserA THEN Summaries ELSE SummariesB :
          LET r == StoreMemory(mem, user_id, summary, "conversation",
                               ChatMetadata(MessageCount(stores + 1)))
          IN  /\ mem' = r.mem
              /\ memLast' = r.last @@ [again |-> /\ memLast.user_id = user_id
                                                 /\ memLast.content = summary]
    /\ stores' = stores + 1
    /\ UNCHANGED << turnVars, cv, tasks, jobs, http >>

\* _persist_conversation_memory with nothing to keep (no transcript, or the
\* sentinel), or with a collaborator that raises: nothing is stored.
PersistNothing ==
    /\ stores < MaxStores
    /\ memLast' = NoStore
    /\ stores' = stores + 1
    /\ UNCHANGED << turnVars, cv, tasks, mem, jobs, http >>

MemInit == TurnIdle /\ SideIdle

MemNext == PersistConversationMemory \/ PersistNothing

\* The persistence jobs of the turns, in sequence.
MemSpec == MemInit /\ [][MemNext]_vars

(***************************************************************************)
(* Two persistence jobs of one user at the same time.  Each job has a      *)
(* session of its own (_persist_memory_job); between the SELECT of the     *)
(* latest entry and the commit of a job the other job may run.             *)
(***************************************************************************)
\* The stores the jobs may start from: an empty one, or one entry.
StartStores ==
    {[rows |-> {}, clock |-> 1]}
      \cup {StoreMemory([rows |-> {}, clock |-> 1], UserA, s, "conversation",
                        ChatMetadata(MessageCount(1))).mem : s \in Summaries}

\* Each job records the store it was scheduled on (start).
JobInit ==
    /\ TurnIdle
    /\ cv = CvIdle
    /\ tasks = TasksIdle
    /\ memLast = NoStore
    /\ stores = 0
    /\ http = NoRequest
    /\ mem \in StartStores
    /\ \E c1 \in Summaries, c2 \in Summaries :
          jobs = [j \in JobIds |->
                    [pc |-> "lookup", user_id |-> UserA,
                     content |-> IF j = 1 THEN c1 ELSE c2,
                     message_count |-> MessageCount(j + 1),
                     latest |-> NoEntry, start |-> mem]]

\* db.scalar(stmt) of job j: the latest entry is loaded into its session.
JobLookup(j) ==
    /\ jobs[j].pc = "lookup"
    /\ jobs' = [jobs EXCEPT ![j].pc = "write",
                            ![j].latest = LatestEntry(mem, jobs[j].user_id, "conversation")]
    /\ UNCHANGED << turnVars, cv, tasks, mem, memLast, stores, http >>

\* The rest of store_memory of job j, on the entry it loaded: merge and
\* commit, or nothing new, or add a new entry and commit.
JobWrite(j) ==
    LET job == jobs[j]
        metadata == ChatMetadata(job.message_count)
        merged == MergeIntoLatest(mem, job.latest, job.content,
                                  MetaSetDefault(metadata, "entry_count", 1),
                                  GenerateEmbedding(job.content))
    IN  /\ job.pc = "write"
        /\ mem' = IF merged.entry # NoEntry THEN merged.mem
                  ELSE [rows |-> mem.rows
                                   \cup {NewMemory(mem, job.user_id, job.content,
                                                   "conversation", metadata)},
                        clock |-> mem.clock + 1]
        /\ jobs' = [jobs EXCEPT ![j].pc = "done"]
        /\ UNCHANGED << turnVars, cv, tasks, memLast, stores, http >>

JobNext == \E j \in JobIds : JobLookup(j) \/ JobWrite(j)

JobSpec == JobInit /\ [][JobNext]_vars

(***************************************************************************)
(* The /message route: one request runs a turn, answers, and its           *)
(* background tasks run after the response.                                *)
(***************************************************************************)
LastOf(s, n) == IF Len(s) <= n THEN s ELSE SubSeq(s, Len(s) - n + 1, Len(s))

\* _recent_dialogue(messages, limit=6)
RecentDialogue(ms) == LastOf(SelectSeq(ms, LAMBDA m : m.role \in {"human", "ai"}), 6)

\* _serialize_dialogue, and _deserialize_dialogue of its result.
SerializeDialogue(ms) ==
    LET d == SelectSeq(ms, LAMBDA m : m.role \in {"human", "ai"})
    IN  [i \in 1..Len(d) |-> << d[i].role, d[i].text >>]
DeserializeDialogue(payload) ==
    LET d == SelectSeq(payload, LAMBDA p : p[1] \in {"human", "ai"})
    IN  [i \in 1..Len(d) |-> Msg(d[i][1], d[i][2])]

\* A variant that adds the task only when the request asks for it.
ScheduleMemoryPersistOnRequest(request, user_id, ms) ==
    IF ~request.persist_memories \/ ~Truthy(user_id) \/ SerializeDialogue(RecentDialogue(ms)) = << >>
    THEN << >>
    ELSE << [user_id |-> user_id, payload |-> SerializeDialogue(RecentDialogue(ms))] >>

\* schedule_memory_persist(background_tasks, user_id, final_messages) as the
\* route calls it: the tasks it adds.  The request is not among its arguments.
ScheduleMemoryPersist(request, user_id, ms) ==
    IF ~Truthy(user_id) THEN << >>
    ELSE IF SerializeDialogue(RecentDialogue(ms)) = << >> THEN << >>
    ELSE << [user_id |-> user_id, payload |-> SerializeDialogue(RecentDialogue(ms))] >>

\* _transcript_from_messages: the lines of the transcript.
TranscriptFromMessages(ms) == SelectSeq(ms, LAMBDA m : m.role \in {"human", "ai"} /\ m.text # "")

\* send_message after invoke_chat: the reply with status 200 and the task of
\* the turn, or HTTPException(500) when invoke_chat raised.
Respond ==
    /\ pc \in {"returned", "raised"}
    /\ http.status = 0
    /\ http' = IF pc = "returned"
               THEN [http EXCEPT !.status = 200, !.response = reply,
                                 !.tasks = ScheduleMemoryPersist(http, turn.user_id, messages)]
               ELSE [http EXCEPT !.status = 500, !.detail = exc]
    /\ UNCHANGED << turnVars, cv, tasks, mem, memLast, stores, jobs >>

\* What can fail inside _persist_conversation_memory.
JobFailures == {"summary_failed", "embedding_failed", "commit_failed"}

\* A variant without the except clause.
PersistCaughtNothing(failure) == FALSE

\* except Exception of _persist_conversation_memory: the failure is logged.
PersistCaught(failure) == TRUE

\* _persist_memory_job, run as a background task after the response: the
\* summarization gives nothing ("nothing"), or the summarization model, the
\* embedding call or the commit raises (nothing is stored), or the summary is
\* stored.
RunJob ==
    /\ http.status # 0
    /\ http.tasks # << >>
    /\ LET task == Head(http.tasks)
           dialogue == RecentDialogue(DeserializeDialogue(task.payload))
       IN  \/ /\ \E outcome \in {"nothing"} \cup JobFailures :
                    http' = [http EXCEPT !.tasks = Tail(@), !.job = outcome,
                                         !.job_raised = /\ outcome \in JobFailures
                                                        /\ ~PersistCaught(outcome)]
              /\ UNCHANGED << mem, memLast, stores >>
           \/ /\ TranscriptFromMessages(dialogue) # << >>
              /\ \E summary \in SummariesB :
                    LET r == StoreMemory(mem, NormalizeUserId(task.user_id), summary,
                                         "conversation", ChatMetadata(Len(dialogue)))
                    IN  /\ mem' = r.mem
                        /\ memLast' = r.last @@ [again |-> FALSE]
              /\ stores' = stores + 1
              /\ http' = [http EXCEPT !.tasks = Tail(@), !.job = "stored"]
    /\ UNCHANGED << turnVars, cv, tasks, jobs >>

\* A request with or without persist_memories, on a store with no memory or
\* with one entry of the user that holds one fact.
RouteInit ==
    /\ TurnIdle
    /\ cv = CvIdle
    /\ tasks = TasksIdle
    /\ mem \in {m \in StartStores : \A e \in m.rows : ParseMemorySections(e.content).facts = << "Name: Rohan" >>}
    /\ memLast = NoStore
    /\ stores = 0
    /\ jobs = JobsIdle
    /\ http \in {[NoRequest EXCEPT !.persist_memories = b] : b \in BOOLEAN}

RouteNext == Next \/ Respond \/ RunJob

RouteSpec == RouteInit /\ [][RouteNext]_vars

(***************************************************************************)
(* Properties of the conversation loop (Spec, FairSpec).                   *)
(***************************************************************************)
LastMsg == messages[Len(messages)]
\* The tool_call_id a result of call c carries: the call's id, "" without one.
IdText(c) == IF c.id = Null THEN "" ELSE c.id.v
\* The turn runs with a model that stopped requesting tools and did not fail.
LoopLeft == pc \in {"release", "extract", "returned"} /\ exc = ""

\* C1: with a model that requests a tool call in every response, the loop
\* of a turn stops after a bounded number of rounds and invoke_chat returns
\* a reply.  (A property of FairSpec, where the turn keeps taking its steps.)
C1_LoopTerminates == (llmKind = "stub" /\ pc = "llm") ~> (pc = "returned")

\* C2: a model response that issues k tool calls is followed by exactly one
\* tool-result message per call, in the order of the calls and with each
\* call's correlation id; the next message, if any, is the next model
\* response; results are outstanding only while the loop is still
\* dispatching the calls of that response (the model is not invoked again
\* before all of them are appended); every tool result belongs to a call.
C2_ResultsInOrderBeforeReinvoke ==
    /\ \A p \in 1..Len(messages) :
         (messages[p].role = "ai" /\ messages[p].tool_calls # << >>) =>
           LET calls == messages[p].tool_calls
               k == Len(calls)
           IN  /\ \A i \in 1..k :
                     (p + i <= Len(messages)) =>
                        /\ messages[p + i].role = "tool"
                        /\ messages[p + i].tool_call_id = IdText(calls[i])
                        /\ messages[p + i].name = calls[i].name
               /\ (p + k + 1 <= Len(messages)) => messages[p + k + 1].role = "ai"
               /\ (p + k > Len(messages)) =>
                     /\ pc = "tools"
                     /\ response = messages[p]
                     /\ callIdx = Len(messages) - p + 1
    /\ \A q \in 1..Len(messages) :
         (messages[q].role = "tool") =>
            \/ truncated
            \/ \E p \in 1..(q - 1) :
                 /\ messages[p].role = "ai"
                 /\ q - p <= Len(messages[p].tool_calls)

\* A response with two calls, both results appended in order, and the
\* model invoked again after them.
C2_Witness ==
    \E p \in 1..Len(messages) :
       /\ messages[p].role = "ai"
       /\ Len(messages[p].tool_calls) = 2
       /\ messages[p].tool_calls[1] # messages[p].tool_calls[2]
       /\ p + 3 <= Len(messages)
       /\ messages[p + 1].tool_call_id = IdText(messages[p].tool_calls[1])
       /\ messages[p + 2].tool_call_id = IdText(messages[p].tool_calls[2])
       /\ messages[p + 3].role = "ai"

\* C3: every step of the loop over the tool calls of a response appends the
\* tool-result message of its call, also when the tool does not exist or
\* raises: the result is then a structured error, no exception leaves the
\* loop, and the turn goes on to the next call or the next model invocation.
C3_FailureBecomesResult ==
    [][ (pc = "tools") =>
          LET call == response.tool_calls[callIdx] IN
          /\ exc' = ""
          /\ pc' = (IF callIdx < Len(response.tool_calls) THEN "tools" ELSE "llm")
          /\ callIdx' = callIdx + 1
          /\ messages'[Len(messages')].role = "tool"
          /\ messages'[Len(messages')].tool_call_id = IdText(call)
          /\ messages'[Len(messages')].payload = lastResult'
          /\ (truncated' \/ messages' = Append(messages, messages'[Len(messages')]))
          /\ ~lastResult'.raised
          /\ (call.name \notin ToolNames \/ caught') => lastResult'.error # ""
      ]_vars

\* A turn returned after a response whose first call named a missing tool and
\* whose second call raised: both have their error result.
C3_Witness ==
    /\ pc = "returned"
    /\ \E p \in 1..Len(messages) :
         /\ p + 3 <= Len(messages)
         /\ messages[p].role = "ai"
         /\ messages[p + 1].payload.error = "Tool is not available."
         /\ messages[p + 2].payload.error = "Invalid record_id"
         /\ messages[p + 3].role = "ai"

\* C4: the loop ends the first time the model responds without a tool call
\* (while the loop runs, every response of the turn requested a tool; when
\* it is left, the last message is the one response that requested none),
\* and the reply is the text of that last message; with no model message
\* in the final list the reply is "".
C4_ReplyIsFinalAnswer ==
    /\ (pc \in {"llm", "tools"} /\ ~truncated) =>
          \A i \in (Len(initial) + 1)..Len(messages) :
             messages[i].role = "ai" => messages[i].tool_calls # << >>
    /\ LoopLeft =>
          /\ LastMsg.role = "ai"
          /\ LastMsg.tool_calls = << >>
          /\ LastMsg = response
          /\ \A i \in (Len(initial) + 1)..(Len(messages) - 1) :
                messages[i].role = "ai" => messages[i].tool_calls # << >>
    /\ (pc = "returned") =>
          /\ reply = LastMsg.text
          /\ (\A i \in 1..Len(messages) : messages[i].role # "ai") => reply = ""

\* A turn with an earlier assistant message in its history and a
\* tool-requesting response returned the text of its final response.
C4_Witness ==
    /\ pc = "returned"
    /\ reply = "final answer"
    /\ \E i \in 1..Len(initial) : initial[i].role = "ai" /\ initial[i].text = "earlier answer"
    /\ \E i \in 1..Len(messages) : messages[i].role = "ai" /\ messages[i].text = "working"


(***************************************************************************)
(* Properties of the data tools (ToolSpec).                                *)
(***************************************************************************)
\* The user the turn acts for, and the user a row belongs to.
Acting == Uuid(turn.user_id.n)
Owner(r) == IF r.tbl = "users" THEN r.c.id ELSE r.c.user_id
\* The step that invokes a tool of the harness.
Invoked == pc = "llm" /\ pc' = "called"
\* Every record a tool result carries.
Returned(res) ==
    SeqToSet(res.records) \cup SeqToSet(res.goals)
       \cup (IF res.user = EmptyDict THEN {} ELSE {res.user})
IsCreate(call) == call.name = "create_table_record" /\ IsWritableTable(TableKey(call.table))
IsUpdate(call) == call.name = "update_table_record" /\ IsWritableTable(TableKey(call.table))
Amounts(rows, user, type) ==
    SumAmounts({r \in rows : r.tbl = "transactions" /\ Owner(r) = user /\ r.c.type = Str(type)})

\* C5: whatever tool is invoked for a user, every record of its result is a
\* row of that user (totals are sums over that user's rows only), and the
\* rows of every other user are after the call what they were before it:
\* none returned, modified or created.
C5_OwnershipIsolation ==
    [][ Invoked =>
          /\ \A rec \in Returned(lastResult') :
                /\ \E r \in store'.rows : PyStr(r.c.id) = rec.id /\ Owner(r) = Acting
                /\ \A r \in store'.rows : PyStr(r.c.id) = rec.id => Owner(r) = Acting
                /\ "user_id" \in DOMAIN rec => rec.user_id = turn.user_id
          /\ (lastCall'.name = "get_user_snapshot" /\ lastResult'.error = "") =>
                /\ lastResult'.totals.total_income = Flt(Amounts(store.rows, Acting, "income"))
                /\ lastResult'.totals.total_expense = Flt(Amounts(store.rows, Acting, "expense"))
          /\ {r \in store'.rows : Owner(r) # Acting} = {r \in store.rows : Owner(r) # Acting}
      ]_vars

\* User A read the goals table while user B has a goal there: both goals of
\* A came back.
C5_Witness ==
    /\ pc = "called"
    /\ turn.user_id = PyStr(UserA)
    /\ lastCall.name = "get_table_records"
    /\ lastCall.table = " Goals "
    /\ Len(lastResult.records) = 2
    /\ \E r \in store.rows : r.tbl = "goals" /\ Owner(r) = UserB

\* C6: update_table_record with a well-formed record id that is not the id
\* of a row of the acting user in that table, whether the row belongs to
\* someone else or to nobody, returns one and the same NotFound result and
\* leaves the store as it was.
C6_ForeignIdIsNotFound ==
    [][ ( /\ Invoked
          /\ IsUpdate(lastCall')
          /\ IsUuidText(lastCall'.record_id)
          /\ ~ \E r \in store.rows : /\ r.tbl = TableKey(lastCall'.table)
                                     /\ PyStr(r.c.id) = lastCall'.record_id
                                     /\ Owner(r) = Acting )
        => /\ lastResult' = ErrorResult("Record not found or access denied.")
           /\ ~caught'
           /\ store' = store
      ]_vars

\* User A tried to pause the goal of user B: NotFound, the goal still active.
C6_Witness ==
    /\ pc = "called"
    /\ turn.user_id = PyStr(UserA)
    /\ lastCall.name = "update_table_record"
    /\ lastCall.record_id = UuidStr(4)
    /\ Get(lastCall.data, "status") = Str("paused")
    /\ lastResult.error = "Record not found or access denied."
    /\ \E r \in store.rows : r.c.id = Uuid(4) /\ Owner(r) = UserB /\ r.c.status = Str("active")

\* Column k of row r, when its table has it, holds the time of the write.
Stamped(r, k, clock) == k \in DOMAIN r.c => r.c[k] = DateTimeV(clock)
\* C7: create_table_record and update_table_record ignore a supplied id,
\* user_id, created_at and updated_at: a created row has a generated id, the
\* acting user as owner and the database clock as timestamps; every existing
\* row keeps its table, id, owner and created_at; a changed row is a row of
\* the acting user, stamped by the database clock.
C7_OverPostingIgnored ==
    [][ (Invoked /\ (IsCreate(lastCall') \/ IsUpdate(lastCall'))) =>
          /\ \A r \in store.rows :
                \E r2 \in store'.rows :
                   /\ r2.tbl = r.tbl
                   /\ r2.c.id = r.c.id
                   /\ Owner(r2) = Owner(r)
                   /\ ("created_at" \in DOMAIN r.c => r2.c.created_at = r.c.created_at)
          /\ \A r2 \in store'.rows \ store.rows :
                IF \E r \in store.rows : r.c.id = r2.c.id
                THEN /\ IsUpdate(lastCall')
                     /\ Owner(r2) = Acting
                     /\ Stamped(r2, "updated_at", store.clock)
                ELSE /\ IsCreate(lastCall')
                     /\ r2.c.id = Uuid(store.clock)
                     /\ Owner(r2) = Acting
                     /\ Stamped(r2, "created_at", store.clock)
                     /\ Stamped(r2, "updated_at", store.clock)
      ]_vars

\* A goal was created from data that also supplied id, user_id, created_at
\* and updated_at, wanting the record to be B's.
C7_Witness ==
    /\ pc = "called"
    /\ turn.user_id = PyStr(UserA)
    /\ lastCall.name = "create_table_record"
    /\ {"id", "user_id", "created_at", "updated_at"} \subseteq DOMAIN lastCall.data
    /\ lastCall.data.user_id = PyStr(UserB)
    /\ lastResult.error = ""
    /\ Len(lastResult.records) = 1
    /\ lastResult.records[1].user_id = PyStr(UserA)

\* The supplied writable fields of a create call that fail coercion.
CreateFailing(call) ==
    LET meta == WritableMeta(TableKey(call.table)) IN
    {k \in DOMAIN call.data \cap SeqToSet(meta.allowed_fields) :
        ~CoerceColumnValue(ColOf(meta.model, k), call.data[k]).ok}
\* The required fields a create call leaves without a value (a goal's title
\* is never among them: it is synthesized before the required fields are tested).
CreateMissing(call) ==
    LET meta == WritableMeta(TableKey(call.table))
        co(f) == CoerceColumnValue(ColOf(meta.model, f), call.data[f])
    IN  {f \in SeqToSet(meta.required_fields) :
           /\ ~(TableKey(call.table) = "goals" /\ f = "title")
           /\ \/ f \notin DOMAIN call.data
              \/ ~co(f).ok
              \/ co(f).val \in {Null, Str("")}}
\* The create call gives a constrained column a value its CHECK excludes.
CreateRejected(call) ==
    \E ck \in CheckConstraints(TableKey(call.table)) :
       /\ Get(call.data, ck[1]) # Null
       /\ PyStr(call.data[ck[1]]).v \notin ck[2]
\* The step persisted nothing and reported every failure and missing field.
NothingButErrors ==
    /\ lastResult'.error = "validation"
    /\ {e.column : e \in lastResult'.invalid} = CreateFailing(lastCall')
    /\ SeqToSet(lastResult'.missing) = CreateMissing(lastCall')
    /\ lastResult'.records = << >>
    /\ store' = store
\* The step persisted exactly one record and returned it.
ExactlyOnePersisted ==
    /\ lastResult'.error = ""
    /\ \E r \in store'.rows \ store.rows :
          /\ store'.rows = store.rows \cup {r}
          /\ r.tbl = TableKey(lastCall'.table)
          /\ lastResult'.records = <<SerializeInstance(r)>>
InvalidCreate(call) == CreateFailing(call) # {} \/ CreateMissing(call) # {}

\* C8, as stated: a create with a coercion failure or a missing required
\* field persists nothing and reports all of them; every other create
\* persists and returns exactly one record.
C8_CreateAllOrNothing ==
    [][ (Invoked /\ IsCreate(lastCall')) =>
          IF InvalidCreate(lastCall') THEN NothingButErrors ELSE ExactlyOnePersisted
      ]_vars

\* C8, amended: a create with a coercion failure or a missing required field
\* persists nothing and reports all of them; any other create persists and
\* returns exactly one record, unless the database rejects the row at commit
\* (a CHECK of the schema excludes a supplied value): then nothing is
\* persisted and the call yields the error of the failed commit.
C8_CreateAllOrNothingUnlessRejected ==
    [][ (Invoked /\ IsCreate(lastCall')) =>
          IF InvalidCreate(lastCall') THEN NothingButErrors
          ELSE IF CreateRejected(lastCall')
          THEN /\ caught'
               /\ lastResult'.error = "IntegrityError"
               /\ lastResult'.records = << >>
               /\ store'.rows = store.rows
          ELSE ExactlyOnePersisted
      ]_vars

\* A create of a goal with two fields that fail coercion, one of them the
\* required amount: both reported, the amount also as missing, no row added.
C8_Witness ==
    /\ pc = "called"
    /\ lastCall.name = "create_table_record"
    /\ Get(lastCall.data, "target_amount") = Str("abc")
    /\ Get(lastCall.data, "current_amount") = Str("lots")
    /\ lastResult.error = "validation"
    /\ Cardinality(lastResult.invalid) = 2
    /\ lastResult.missing = <<"target_amount">>
    /\ store.rows = SeedRows

\* The create call succeeded and returned its record.
Created(tbl) ==
    /\ pc = "called"
    /\ lastCall.name = "create_table_record"
    /\ TableKey(lastCall.table) = tbl
    /\ lastResult.error = ""
    /\ Len(lastResult.records) = 1
\* The record holds for field f the value the call supplied.
KeepsSupplied(f) ==
    lastResult.records[1][f] =
       (IF f = "current_amount" THEN ToFloat(lastCall.data[f]) ELSE lastCall.data[f])
DefaultTitles ==
    {Str("Savings goal")} \cup {Str("Savings goal " \o t) : t \in NumericTexts}

\* C9, as stated: a default is applied only to a field absent from the
\* supplied data; a supplied field keeps its value.
C9_DefaultsOnlyWhenAbsent ==
    /\ Created("transactions") =>
          /\ \A f \in {"currency", "ledger_status"} \cap DOMAIN lastCall.data :
                KeepsSupplied(f)
          /\ "currency" \notin DOMAIN lastCall.data =>
                lastResult.records[1].currency = Str("INR")
          /\ "ledger_status" \notin DOMAIN lastCall.data =>
                lastResult.records[1].ledger_status = Str("unreconciled")
    /\ Created("goals") =>
          \A f \in {"title", "status", "priority", "current_amount"} \cap DOMAIN lastCall.data :
             KeepsSupplied(f)

\* C9, amended: a default is applied to a field that is absent or null (for
\* a goal's title: absent, null or empty); a supplied non-null value (a
\* non-empty title) is kept: currency INR and ledger_status unreconciled for
\* a transaction, status active, priority medium, current_amount 0 and a
\* title taken from the description or synthesized for a goal.
C9_DefaultsOnlyWhenNoValue ==
    /\ Created("transactions") =>
          /\ \A f \in {"currency", "ledger_status"} :
                Get(lastCall.data, f) # Null => KeepsSupplied(f)
          /\ Get(lastCall.data, "currency") = Null =>
                lastResult.records[1].currency = Str("INR")
          /\ Get(lastCall.data, "ledger_status") = Null =>
                lastResult.records[1].ledger_status = Str("unreconciled")
    /\ Created("goals") =>
          /\ \A f \in {"status", "priority", "current_amount"} :
                Get(lastCall.data, f) # Null => KeepsSupplied(f)
          /\ Truthy(Get(lastCall.data, "title")) => KeepsSupplied("title")
          /\ Get(lastCall.data, "status") = Null =>
                lastResult.records[1].status = Str("active")
          /\ Get(lastCall.data, "priority") = Null =>
                lastResult.records[1].priority = Str("medium")
          /\ Get(lastCall.data, "current_amount") = Null =>
                lastResult.records[1].current_amount = Flt(0)
          /\ ~Truthy(Get(lastCall.data, "title")) =>
                IF Truthy(Get(lastCall.data, "description"))
                THEN lastResult.records[1].title = lastCall.data.description
                ELSE lastResult.records[1].title \in DefaultTitles

\* A transaction created with an explicit currency and no ledger_status.
C9_Witness ==
    /\ Created("transactions")
    /\ Get(lastCall.data, "currency") = Str("USD")
    /\ "ledger_status" \notin DOMAIN lastCall.data
    /\ lastResult.records[1].currency = Str("USD")
    /\ lastResult.records[1].ledger_status = Str("unreconciled")

\* C10: a create of a goal whose data holds a target_amount and nothing
\* else succeeds; the record has a title that contains the amount, status
\* active, priority medium and current_amount 0, and is the row persisted.
C10_GoalFromAmountOnly ==
    ( /\ pc = "called"
      /\ lastCall.name = "create_table_record"
      /\ TableKey(lastCall.table) = "goals"
      /\ DOMAIN lastCall.data = {"target_amount"}
      /\ lastCall.data.target_amount.t = "num" )
    => /\ Created("goals")
       /\ ~caught
       /\ lastResult.records[1].title =
             Str("Savings goal " \o NumText(lastCall.data.target_amount.n))
       /\ lastResult.records[1].status = Str("active")
       /\ lastResult.records[1].priority = Str("medium")
       /\ lastResult.records[1].current_amount = Flt(0)
       /\ lastResult.records[1].target_amount = Flt(lastCall.data.target_amount.n)
       /\ lastResult.records[1].user_id = turn.user_id
       /\ \E r \in store.rows \ SeedRows :
             /\ r.tbl = "goals"
             /\ SerializeInstance(r) = lastResult.records[1]
             /\ store.rows = SeedRows \cup {r}

\* A goal created from {target_amount: 80000}.
C10_Witness ==
    /\ Created("goals")
    /\ lastCall.data = [target_amount |-> Num(80000)]
    /\ lastResult.records[1].title = Str("Savings goal 80000")
    /\ lastResult.records[1].status = Str("active")

\* The registered tables, and those but the identity table.
Registered == SeqToSet(ModelTableKeys)
RegisteredButUsers == Registered \ {"users"}
GenericTools == {"get_table_records", "create_table_record", "update_table_record"}
\* The step rejected the table, named the allowed ones and touched nothing.
RejectedNaming(msg, tables) ==
    /\ lastResult'.error = msg
    /\ SeqToSet(lastResult'.allowed) = tables
    /\ lastResult'.table = lastCall'.table
    /\ lastResult'.records = << >>
    /\ ~caught'
    /\ store' = store
\* The step did not reject the table.
TableAdmitted ==
    /\ lastResult'.error \notin {"Table is not accessible.", "Table is not writable."}
    /\ lastResult'.allowed = << >>
\* create and update admit every registered table but users, reject the rest.
WritesGuarded ==
    (Invoked /\ lastCall'.name \in {"create_table_record", "update_table_record"}) =>
       IF TableKey(lastCall'.table) \in RegisteredButUsers
       THEN TableAdmitted
       ELSE RejectedNaming("Table is not writable.", RegisteredButUsers)

\* C11, as stated: each of the three generic tools admits every registered
\* table but "users", and rejects "users" and every unregistered key with an
\* error naming the allowed tables, reading and writing nothing.
C11_UsersRejectedEverywhere ==
    [][ /\ WritesGuarded
        /\ (Invoked /\ lastCall'.name = "get_table_records") =>
              IF TableKey(lastCall'.table) \in RegisteredButUsers
              THEN TableAdmitted
              ELSE RejectedNaming("Table is not accessible.", RegisteredButUsers)
      ]_vars

\* C11, amended: create and update admit every registered table but "users"
\* and reject "users" and unregistered keys; the generic read admits every
\* registered table, "users" included (it returns the acting user's own
\* row), and rejects only unregistered keys; a rejection names the allowed
\* tables of the tool and reads and writes nothing.
C11_UsersRejectedForWrites ==
    [][ /\ WritesGuarded
        /\ (Invoked /\ lastCall'.name = "get_table_records") =>
              IF TableKey(lastCall'.table) \in Registered
              THEN /\ TableAdmitted
                   /\ lastResult'.error = ""
                   /\ store' = store
                   /\ TableKey(lastCall'.table) = "users" =>
                         /\ Len(lastResult'.records) = 1
                         /\ lastResult'.records[1].id = turn.user_id
              ELSE RejectedNaming("Table is not accessible.", Registered)
      ]_vars

\* A create on "users" was rejected with the list of the writable tables.
C11_Witness ==
    /\ pc = "called"
    /\ lastCall.name = "create_table_record"
    /\ lastCall.table = "users"
    /\ Get(lastCall.data, "email") = Str("c@x.in")
    /\ lastResult.error = "Table is not writable."
    /\ "goals" \in SeqToSet(lastResult.allowed)
    /\ "users" \notin SeqToSet(lastResult.allowed)
    /\ store.rows = SeedRows

\* C12: the turn binds the database handle and the user id it was given
\* before the loop, and once invoke_chat has left its finally block, by a
\* reply or by an exception, the ambient context is what it was before the
\* call: unbound.
C12_ContextScopedToTurn ==
    /\ pc \in {"start", "bind", "extract", "returned", "raised"} =>
          /\ ctxDb = NoSession
          /\ ctxUser = Null
    /\ pc \in {"llm", "tools"} =>
          /\ ctxDb = turn.db
          /\ ctxUser = turn.user_id

\* A turn with a bound context ran a failing tool call, then its model call
\* raised: invoke_chat raised and the context is unbound again.
C12_Witness ==
    /\ pc = "raised"
    /\ exc = "ModelUnavailable"
    /\ turn.db = Session1
    /\ dbToken.set /\ userToken.set
    /\ \E i \in 1..Len(messages) : messages[i].role = "tool" /\ messages[i].payload.error # ""
    /\ ctxDb = NoSession
    /\ ctxUser = Null

\* C13: in every interleaving of two turns, what a tool execution of a
\* turn reads is what that same turn bound: its own session and user, and
\* nothing when the turn bound nothing.
C13_ToolReadsOwnContext ==
    \A t \in TaskIds :
       tasks[t].done > 0 =>
          IF tasks[t].db = NoSession
          THEN ~tasks[t].seen.ok
          ELSE /\ tasks[t].seen.ok
               /\ tasks[t].seen.db = tasks[t].db
               /\ tasks[t].seen.user_id = Uuid(tasks[t].user_id.n)

\* The turns of users A and B are both bound and each has executed a tool
\* after the other one bound its context.
C13_Witness ==
    /\ \A t \in TaskIds : tasks[t].pc = "run" /\ tasks[t].done > 0
    /\ tasks[1].seen.user_id = UserA
    /\ tasks[2].seen.user_id = UserB
    /\ tasks[1].seen.db = Session1
    /\ tasks[2].seen.db = Session2


(***************************************************************************)
(* Properties of the memory store (MemSpec).                               *)
(***************************************************************************)
Facts(content) == ParseMemorySections(content).facts
Followups(content) == ParseMemorySections(content).followups
\* A summary that states one fact and nothing else.
SingleFact(content) == Len(Facts(content)) = 1 /\ Followups(content) = << >>
\* The places where the stored entries of a user's conversation topic hold
\* the fact.
Occurrences(user_id, fact) ==
    UNION {{<< e.id, i >> : i \in {j \in 1..Len(Facts(e.content)) : Facts(e.content)[j] = fact}} :
           e \in TopicRows(mem, user_id, "conversation")}
Stored == memLast # NoStore
Capped(e) == e # NoEntry /\ EntryCount(e) >= MAX_MERGE_UPDATES

\* C14 as stated: whenever store_memory has been called twice in a row with
\* the same single fact for the same user and topic, the topic's stored
\* memory holds that fact exactly once.
C14_StoreTwiceOneOccurrence ==
    (Stored /\ memLast.again /\ SingleFact(memLast.content))
       => Cardinality(Occurrences(memLast.user_id, Facts(memLast.content)[1])) = 1

\* C14: a store_memory call that repeats the call before it (same user,
\* topic and summary) changes nothing in the store and writes nothing,
\* unless the call before it left the latest entry at the cap.
C14_RepeatedStoreAddsNothing ==
    [][(stores' = stores + 1 /\ memLast' # NoStore /\ memLast'.again /\ ~Capped(memLast.returned))
          => (mem' = mem /\ memLast'.writes = 0 /\ memLast'.returned = memLast.returned)]_vars

\* The same fact was merged into an existing entry and then stored again:
\* the entry holds it once and was not written the second time.
C14_Witness ==
    /\ Stored
    /\ memLast.again
    /\ SingleFact(memLast.content)
    /\ memLast.writes = 0
    /\ EntryCount(memLast.returned) = 2
    /\ Cardinality(Occurrences(memLast.user_id, Facts(memLast.content)[1])) = 1
    /\ Len(Facts(memLast.returned.content)) = 2


\* C15: no step changes or removes an entry whose entry_count is at the
\* cap; and a store_memory call that finds the latest entry of the
\* user/topic at the cap adds one new entry, later than the capped one,
\* with the summary as its content and entry_count 1.
C15_CappedEntryRollsOver ==
    [][/\ \A e \in mem.rows : Capped(e) => e \in mem'.rows
       /\ (stores' = stores + 1 /\ memLast' # NoStore /\ Capped(memLast'.latest))
            => /\ memLast'.returned \notin mem.rows
               /\ mem'.rows = mem.rows \cup {memLast'.returned}
               /\ memLast'.returned.content = memLast'.content
               /\ memLast'.returned.created_at > memLast'.latest.created_at
               /\ EntryCount(memLast'.returned) = 1
               /\ memLast'.writes = 1]_vars

\* A store found the latest entry at the cap: the capped entry is still
\* stored as it was, beside the new entry the call returned.
C15_Witness ==
    /\ Stored
    /\ memLast.latest # NoEntry
    /\ EntryCount(memLast.latest) = MAX_MERGE_UPDATES
    /\ memLast.latest \in mem.rows
    /\ memLast.returned \in mem.rows
    /\ memLast.returned.id # memLast.latest.id
    /\ EntryCount(memLast.returned) = 1

\* C16: every stored entry has an entry_count between 1 and the cap, and no
\* step lowers the entry_count of an entry.
C16_EntryCountBoundedMonotone ==
    [][/\ \A e \in mem'.rows : EntryCount(e) \in 1..MAX_MERGE_UPDATES
       /\ \A e \in mem.rows : \E f \in mem'.rows : f.id = e.id /\ EntryCount(f) >= EntryCount(e)]_vars

\* A merge of the chat path has just raised an entry from one below the cap
\* to the cap.
C16_Witness ==
    /\ Stored
    /\ memLast.writes = 1
    /\ memLast.latest # NoEntry
    /\ EntryCount(memLast.latest) = MAX_MERGE_UPDATES - 1
    /\ memLast.returned.id = memLast.latest.id
    /\ EntryCount(memLast.returned) = MAX_MERGE_UPDATES
    /\ memLast.returned.meta["source"] = "chat"


\* The last call found a latest entry below the cap.
FoundUncapped == Stored /\ memLast.latest # NoEntry /\ ~Capped(memLast.latest)
\* Every fact and follow-up of the summary of the last call was already in
\* the entry it found.
NothingNew ==
    /\ FoundUncapped
    /\ SeqToSet(Facts(memLast.content)) \subseteq SeqToSet(Facts(memLast.latest.content)) \cup {""}
    /\ SeqToSet(Followups(memLast.content))
          \subseteq SeqToSet(Followups(memLast.latest.content)) \cup {""}

\* The part of C17 about the store: a call with nothing new returns the
\* entry it found, which is stored as it was, and writes nothing.
NoOpLeavesEntryUntouched ==
    NothingNew => /\ memLast.returned = memLast.latest
                  /\ memLast.latest \in mem.rows
                  /\ memLast.writes = 0

\* C17: a store_memory call whose facts and follow-ups are all in the latest
\* uncapped entry leaves that entry untouched, creates no entry, writes
\* nothing and computes no embedding.
C17_NothingNewNoWriteNoEmbedding ==
    NothingNew => /\ memLast.returned = memLast.latest
                  /\ memLast.latest \in mem.rows
                  /\ memLast.writes = 0
                  /\ memLast.embedded = << >>

\* The last call merged something into the entry it found.
Merged == FoundUncapped /\ memLast.writes = 1 /\ memLast.returned.id = memLast.latest.id
\* The items of a list that are not in the existing list, once each, in
\* their order.
RECURSIVE NewItems(_, _)
NewItems(existing, items) ==
    IF items = << >> THEN << >>
    ELSE IF Head(items) = "" \/ Head(items) \in SeqToSet(existing)
         THEN NewItems(existing, Tail(items))
         ELSE << Head(items) >> \o NewItems(Append(existing, Head(items)), Tail(items))
NoDuplicates(items) == \A i, j \in 1..Len(items) : items[i] = items[j] => i = j

\* C18: after a merge the entry's facts are the facts it had followed by the
\* new facts not yet present, in order and without duplicate lines, likewise
\* its follow-ups, and its entry_count is one more than before.
C18_MergeAppendsWithoutDuplicates ==
    Merged =>
       /\ Facts(memLast.returned.content)
             = Facts(memLast.latest.content)
                  \o NewItems(Facts(memLast.latest.content), Facts(memLast.content))
       /\ Followups(memLast.returned.content)
             = Followups(memLast.latest.content)
                  \o NewItems(Followups(memLast.latest.content), Followups(memLast.content))
       /\ NoDuplicates(Facts(memLast.returned.content))
       /\ NoDuplicates(Followups(memLast.returned.content))
       /\ EntryCount(memLast.returned) = EntryCount(memLast.latest) + 1

\* The part of C18 that does not depend on the entry found being free of
\* duplicates, and the scenario of the two summaries.
MergeAppendsNewInOrder ==
    Merged =>
       /\ Facts(memLast.returned.content)
             = Facts(memLast.latest.content)
                  \o NewItems(Facts(memLast.latest.content), Facts(memLast.content))
       /\ Followups(memLast.returned.content)
             = Followups(memLast.latest.content)
                  \o NewItems(Followups(memLast.latest.content), Followups(memLast.content))
       /\ EntryCount(memLast.returned) = EntryCount(memLast.latest) + 1
RohanThenConservative ==
    /\ Merged
    /\ mem.rows = {memLast.returned}
    /\ Facts(memLast.returned.content) = << "Name: Rohan", "Prefers conservative investing" >>
    /\ EntryCount(memLast.returned) = 2

\* The embedding stored with a content.
EmbeddingFor(content) == IF IsBlankText(content) THEN NoVector ELSE EmbedQuery(content)

\* C19: the embedding of every stored entry is the embedding of the entry's
\* current content, also after a merge has rewritten the content.
C19_EmbeddingOfCurrentContent ==
    \A e \in mem.rows : e.embedding = EmbeddingFor(e.content)


(***************************************************************************)
(* Properties of concurrent persistence jobs (JobSpec).                    *)
(***************************************************************************)
\* The store after job a and then job b, one after the other.
Serial(a, b) ==
    StoreMemory(StoreMemory(a.start, a.user_id, a.content, "conversation",
                            ChatMetadata(a.message_count)).mem,
                b.user_id, b.content, "conversation", ChatMetadata(b.message_count)).mem

\* C20: when both jobs of the user have finished, the store is what the two
\* jobs leave when run one after the other in one of the two orders.
C20_JobsSerializable ==
    (\A j \in JobIds : jobs[j].pc = "done")
       => mem \in {Serial(jobs[1], jobs[2]), Serial(jobs[2], jobs[1])}


\* The timestamp column of a table.
TimestampColumn(key) ==
    IF "created_at" \in ColNames(ModelTables(key)) THEN "created_at"
    ELSE IF "calculated_at" \in ColNames(ModelTables(key)) THEN "calculated_at"
    ELSE "sent_at"
\* The acting user's n most recent records of a table, most recent first.
MostRecentFirst(key, n) ==
    LET S == {r \in store.rows : r.tbl = key /\ Owner(r) = Acting}
    IN  {Take(s, n) : s \in OrderedSeqs(S, [r \in S |-> r.c[TimestampColumn(key)].n])}
TableRead ==
    /\ pc = "called"
    /\ lastCall.name = "get_table_records"
    /\ IsModelTable(TableKey(lastCall.table))

\* C24: get_table_records on a registered table returns at most
\* min(max(limit, 1), 50) records, and they are the acting user's most recent
\* records of the table, most recent first by the table's timestamp column.
C24_ReadsMostRecentFirst ==
    TableRead =>
       /\ lastResult.error = ""
       /\ Len(lastResult.records) <= Min(Max(lastCall.limit, 1), 50)
       /\ lastResult.records
             \in {SerializeAll(s) :
                    s \in MostRecentFirst(TableKey(lastCall.table),
                                          Min(Max(lastCall.limit, 1), 50))}

\* The turn was given both a user id and a database handle.
TurnBound == Truthy(turn.user_id) /\ turn.db # NoSession

\* C23: invoke_chat returns a reply only for a turn with a user id and a
\* database handle bound, and it fails only because the model call failed
\* or because the turn has no user id or no database handle; no other error
\* of a tool call ends the turn.
C23_OnlyModelAndContextErrorsAreFatal ==
    /\ pc \in {"extract", "returned"} => TurnBound
    /\ pc = "raised" => (exc = "ModelUnavailable" \/ ~TurnBound)

(***************************************************************************)
(* Properties of the /message route (RouteSpec).                           *)
(***************************************************************************)
\* C21: when the chat model call of a turn fails, invoke_chat does not end
\* in an exception and the route does not answer with an error status (the
\* user gets an apology as the reply).
C21_ModelFailureDegradesToReply ==
    exc = "ModelUnavailable" => (pc # "raised" /\ http.status \in {0, 200})


\* C22: the memory job runs only after the route has answered; it changes
\* neither the reply nor the response nor its status, no exception leaves
\* it, and when the summarization model, the embedding call or the commit
\* fails it leaves the memory store as it was.
C22_MemoryJobNeverAffectsReply ==
    [][Len(http'.tasks) < Len(http.tasks)
          => /\ http.status # 0
             /\ http'.status = http.status
             /\ http'.response = http.response
             /\ http'.detail = http.detail
             /\ reply' = reply
             /\ ~http'.job_raised
             /\ (http'.job \in JobFailures => mem' = mem)]_vars

\* The turn was answered with the model's final answer and the commit of
\* its memory job failed afterwards.
C22_Witness ==
    /\ http.status = 200
    /\ http.response = "final answer"
    /\ reply = "final answer"
    /\ http.tasks = << >>
    /\ http.job = "commit_failed"
    /\ ~http.job_raised
    /\ memLast = NoStore


(***************************************************************************)
(* Properties of update_table_record (ToolSpec).                           *)
(***************************************************************************)
\* The acting user's record an update call addresses.
OwnedTarget(call) ==
    {r \in store.rows : /\ r.tbl = TableKey(call.table)
                        /\ PyStr(r.c.id) = call.record_id
                        /\ Owner(r) = Acting}
\* The supplied fields of an update that are writable, and those of them
\* that coerce.
SuppliedWritable(call) ==
    DOMAIN call.data \cap SeqToSet(BuildAllowedFields(ModelTables(TableKey(call.table))))
Coerced(call, k) ==
    CoerceColumnValue(ColOf(ModelTables(TableKey(call.table)), k), call.data[k])
Applicable(call) == {k \in SuppliedWritable(call) : Coerced(call, k).ok}
\* What column k of record r holds once the applicable fields are set.
AppliedValue(call, r, k) ==
    IF k \in Applicable(call)
    THEN DbStore(ColOf(ModelTables(r.tbl), k), Coerced(call, k).val)
    ELSE r.c[k]
\* The step replaced r by r2 and returned r2 with the dropped fields as warnings.
UpdateReturned(r, r2) ==
    /\ r2.tbl = r.tbl
    /\ store'.rows = (store.rows \ {r}) \cup {r2}
    /\ lastResult'.error = ""
    /\ lastResult'.records = << SerializeInstance(r2) >>
    /\ {w.column : w \in lastResult'.warnings}
          = SuppliedWritable(lastCall') \ Applicable(lastCall')
\* The step failed with an error and left the records as they were.
UpdateRefused ==
    /\ lastResult'.error # ""
    /\ lastResult'.records = << >>
    /\ store'.rows = store.rows
\* The database rejects the record with the applicable fields set.
UpdateRejected(call, r) ==
    \/ \E k \in Applicable(call) :
          /\ AppliedValue(call, r, k) = Null
          /\ ~ColOf(ModelTables(r.tbl), k).nullable
    \/ \E ck \in CheckConstraints(r.tbl) :
          /\ ck[1] \in Applicable(call)
          /\ AppliedValue(call, r, ck[1]) # Null
          /\ AppliedValue(call, r, ck[1]).v \notin ck[2]

\* C25, as stated: an update of an owned record sets exactly the supplied
\* writable fields that coerce and leaves every other field of the record as
\* it was, returns the record with the fields that failed coercion as
\* warnings, and with no writable field supplied it is an error that changes
\* nothing.
C25_UpdateSetsExactlySupplied ==
    [][ (Invoked /\ IsUpdate(lastCall')) =>
          \A r \in OwnedTarget(lastCall') :
             IF SuppliedWritable(lastCall') = {} THEN UpdateRefused
             ELSE \E r2 \in store'.rows :
                     /\ UpdateReturned(r, r2)
                     /\ \A k \in DOMAIN r.c : r2.c[k] = AppliedValue(lastCall', r, k)
      ]_vars

\* C25, amended: as stated, except that updated_at becomes the time of the
\* update when a field changed (and only then), and that an update whose
\* values the database rejects at commit fails with the error of the commit
\* and changes nothing.
C25_UpdateSetsSuppliedAndStamps ==
    [][ (Invoked /\ IsUpdate(lastCall')) =>
          \A r \in OwnedTarget(lastCall') :
             IF SuppliedWritable(lastCall') = {} THEN UpdateRefused
             ELSE IF UpdateRejected(lastCall', r)
             THEN caught' /\ lastResult'.error = "IntegrityError" /\ UpdateRefused
             ELSE \E r2 \in store'.rows :
                     /\ UpdateReturned(r, r2)
                     /\ \A k \in DOMAIN r.c \ {"updated_at"} :
                           r2.c[k] = AppliedValue(lastCall', r, k)
                     /\ "updated_at" \in DOMAIN r.c =>
                          r2.c.updated_at
                            = IF \E k \in DOMAIN r.c : AppliedValue(lastCall', r, k) # r.c[k]
                              THEN DateTimeV(store.clock) ELSE r.c.updated_at
      ]_vars

\* User A's goal was updated with a title, an amount that does not coerce
\* and a user_id: the title is stored, the amount is a warning, the owner
\* and the target amount are what they were.
C25_Witness ==
    /\ pc = "called"
    /\ turn.user_id = PyStr(UserA)
    /\ lastCall.name = "update_table_record"
    /\ lastCall.record_id = UuidStr(3)
    /\ DOMAIN lastCall.data = {"title", "current_amount", "user_id"}
    /\ lastCall.data.current_amount = Str("lots")
    /\ lastResult.error = ""
    /\ {w.column : w \in lastResult.warnings} = {"current_amount"}
    /\ \E r \in store.rows :
          /\ r.tbl = "goals" /\ r.c.id = Uuid(3)
          /\ r.c.title = Str("") /\ r.c.user_id = UserA
          /\ r.c.target_amount = Dec(80000)
          /\ r.c.updated_at = DateTimeV(10)


(***************************************************************************)
(* Properties of the message sequence (Spec).                              *)
(***************************************************************************)
IsPrefix(s, t) == Len(s) <= Len(t) /\ SubSeq(t, 1, Len(s)) = s
\* Roles of the composed sequence: system, then memory (a system message),
\* then the history, then the new human message.
ComposedOrder(ms) ==
    /\ Len(ms) >= 2
    /\ ms[1] = Msg("system", "_SUPERVISOR_PROMPT")
    /\ ms[Len(ms)] = Msg("human", "hello")
    /\ \A i, j \in 2..(Len(ms) - 1) : (i < j /\ ms[j].role = "system") => ms[i].role = "system"

\* C26: the message list of a turn only grows at its end.  It starts as the
\* composed initial sequence, every later change appends exactly one model
\* response or tool result, and so the initial sequence stays a prefix of
\* the list up to the one invoke_chat returns.
C26_MessagesAppendOnly ==
    [][ (~truncated' /\ pc' # "start") =>
          /\ messages' # messages =>
                \/ messages = << >> /\ messages' = initial /\ ComposedOrder(initial)
                \/ /\ Len(messages') = Len(messages) + 1
                   /\ SubSeq(messages', 1, Len(messages)) = messages
                   /\ messages'[Len(messages')].role \in {"ai", "tool"}
          /\ messages' # << >> => IsPrefix(initial', messages')
          /\ initial' # initial => pc = "start"
      ]_vars

\* A returned turn that began with memory and history and ran a tool: the
\* five composed messages come first, a model response, the tool result and
\* the final answer follow.
C26_Witness ==
    /\ pc = "returned"
    /\ ~truncated
    /\ Len(initial) = 5
    /\ Len(messages) = 8
    /\ SubSeq(messages, 1, 5) = initial
    /\ messages[6].role = "ai" /\ messages[7].role = "tool" /\ messages[8].role = "ai"
    /\ reply = messages[8].text


(***************************************************************************)
(* Properties of the writable field sets (ToolSpec).                       *)
(***************************************************************************)
\* The columns of a table that identify a record, own it or time-stamp it:
\* the primary key, user_id and the columns the database fills with NOW().
Protected(key) ==
    {c.name : c \in {x \in SeqToSet(ModelTables(key)) :
                       x.pk \/ x.name = "user_id" \/ (x.type = "datetime" /\ x.dflt = "now")}}
\* What the database itself puts in protected column k of a row written at
\* time clock for the acting user.
Generated(key, k, clock) ==
    IF k = "user_id" THEN Acting ELSE DefaultValue(ColOf(ModelTables(key), k), clock)

\* C27: no create_table_record or update_table_record call sets a primary
\* key, a user_id or a timestamp column from its arguments: in every record
\* the call writes, each such column holds what the record held before or
\* what the database generates for the acting user at the time of the write.
C27_ProtectedColumnsNotWritable ==
    [][ (Invoked /\ (IsCreate(lastCall') \/ IsUpdate(lastCall'))) =>
          \A r2 \in store'.rows \ store.rows :
             \A k \in Protected(r2.tbl) :
                \/ r2.c[k] = Generated(r2.tbl, k, store.clock)
                \/ \E r \in store.rows :
                      r.tbl = r2.tbl /\ r.c.id = r2.c.id /\ r.c[k] = r2.c[k]
      ]_vars


(***************************************************************************)
(* Properties of a call after a failed call (RetrySpec).                   *)
(***************************************************************************)
\* The tool call that just returned was a create or update whose commit the
\* database rejected.
FailedPersisting(call, res, wasCaught) ==
    /\ IsCreate(call) \/ IsUpdate(call)
    /\ wasCaught
    /\ res.error = "IntegrityError"

\* C28: a create or update whose commit is rejected leaves the stored records
\* as they were, and the next call of the turn on the same database handle,
\* made with valid arguments, succeeds.
C28_FailedWriteDoesNotBlockRetry ==
    [][ /\ (Invoked /\ FailedPersisting(lastCall', lastResult', caught'))
           => store'.rows = store.rows
        /\ (pc = "called" /\ pc' = "retried" /\ FailedPersisting(lastCall, lastResult, caught))
           => (lastResult'.error = "" /\ ~caught')
      ]_vars


\* C29: a memory job is scheduled only for a request with persist_memories
\* set and only once invoke_chat has returned its reply; a request that
\* leaves persist_memories at its default schedules and runs no job, and no
\* memory entry is created or modified on its behalf.
C29_JobOnlyWhenRequested ==
    [][ /\ http'.tasks # << >> => (http'.persist_memories /\ pc' = "returned")
        /\ ~http.persist_memories => (mem' = mem /\ http'.job = "")
      ]_vars


(***************************************************************************)
(* Properties of summaries with nothing to keep (MemSpec).                 *)
(***************************************************************************)
\* A formatted summary whose bullets are all the sentinel.
SentinelOnly(content) ==
    /\ \E i \in 1..Len(content) : content[i].k = "bullet"
    /\ \A i \in 1..Len(content) : content[i].k = "bullet" => IsNoMemory(content[i].v)
    /\ Facts(content) = << >> /\ Followups(content) = << >>

\* C30: a persistence job whose summary is the sentinel, or a formatted
\* summary with no bullet but the sentinel, leaves the memory store as it
\* was: no entry created, none modified, whatever entries exist.
C30_NothingToKeepChangesNothing ==
    [][ (stores' = stores + 1 /\ (memLast' = NoStore \/ SentinelOnly(memLast'.content)))
          => mem' = mem
      ]_vars

=============================================================================
